---- MODULE Spec2Model ----
(***************************************************************************)
(* Linear webhook bridge (src/extensions/linear-webhook/index.ts).         *)
(*                                                                         *)
(* The plugin runs inside one Node.js process.  A handler is interleaved   *)
(* with other handlers only at its `await` points; the code between two    *)
(* awaits runs to completion.  readFileSync / appendFileSync are           *)
(* synchronous, so writeTrigger as a whole is one step.                    *)
(*                                                                         *)
(* Specifications:                                                         *)
(*   Spec        the gateway: push deliveries, poll sweeps, status rewrites *)
(*   SpecFault   the gateway started on a damaged trigger log              *)
(*   SpecLive    the same, with the event loop running the handlers' code  *)
(*   SpecSig     verifySignature applied to bounded inputs                 *)
(*   SpecLedger  the trigger log under admissions and status rewrites      *)
(*   SpecLog     readTriggerLog / writeTrigger applied to any log file     *)
(*   SpecPair    writeTrigger applied to one file with two entries         *)
(*   SpecPath    extractStoryFilePath applied to bounded descriptions      *)
(*   SpecSync    runs of scripts/ops/github-linear-sync.js                 *)
(*   SpecBmad    runs of scripts/ops/bmad-linear-check.js                  *)
(*   SpecCanon   canon-enforcer's before_prompt_build hook                 *)
(***************************************************************************)
EXTENDS Integers, Sequences, FiniteSets, TLC

VARIABLES
    cfg,              \* getConfig(api.pluginConfig): webhookSecret, teamId, logEvents
    apiSessions,      \* whether the runtime offers api.sessions.spawn
    ledger,           \* lines of logs/linear-triggers.jsonl, in file order (none when there is no file)
    disk,             \* whether the directory logs/ and the file linear-triggers.jsonl exist
    eventLog,         \* number of lines appended to logs/linear-webhook-events.jsonl
    kind,             \* per ingestion unit: "none" | "webhook" | "poll"
    pc,               \* per ingestion unit: position of its handler
    response,         \* per unit: HTTP status written by the webhook handler (0 = none yet)
    rawBody,          \* per unit: the request body the webhook handler holds
    issueId,          \* per unit: the issueId local of the admission in progress
    written,          \* per unit: result of the unit's last writeTrigger call
    issues,           \* per unit: nodes of the poll result not yet visited by the for loop
    triggeredCount,   \* per unit: the poll handler's triggeredCount local
    pollReturn,       \* per unit: which message the poll handler returned
    started,          \* ingestion units (push deliveries and poll sweeps) started so far
    spawnsSinceRearm, \* per issue: sessions.spawn calls made since a record of it was last marked skipped
    vsCall,           \* SpecSig: one verifySignature call, arguments and result
    logCall,          \* SpecLedger, SpecLog: one readTriggerLog / writeTrigger call, arguments and result
    pairCall,         \* SpecPair: writeTrigger called on one file with either of two entries
    pathCall,         \* SpecPath: one extractStoryFilePath call, argument and result
    ghSync,           \* SpecSync: scripts/ops/github-linear-sync.js, its runs, its dedup log, the tracker
    bmadSync,         \* SpecBmad: scripts/ops/bmad-linear-check.js, its runs and its manifest
    canon             \* SpecCanon: canon-enforcer's before_prompt_build hook, its cache, the README files

gatewayVars == <<cfg, apiSessions, ledger, disk, eventLog, kind, pc, response, rawBody,
                 issueId, written, issues, triggeredCount, pollReturn, started,
                 spawnsSinceRearm>>
vars == <<cfg, apiSessions, ledger, disk, eventLog, kind, pc, response, rawBody,
          issueId, written, issues, triggeredCount, pollReturn, started,
          spawnsSinceRearm, vsCall, logCall, pairCall, pathCall, ghSync, bmadSync, canon>>
scriptVars == <<ghSync, bmadSync, canon>>
callVars == <<vsCall, logCall, pairCall, pathCall, ghSync, bmadSync, canon>>

(***************************************************************************)
(* Bounds                                                                  *)
(***************************************************************************)
MaxUnits == 2       \* ingestion units (push deliveries + poll sweeps) started in a run
NumIssues == 2      \* distinct work items the tracker knows
MaxLines == 3       \* lines of the trigger log in SpecLedger and SpecLog
MaxPairLines == 2   \* lines of the trigger log in SpecPair
MaxContext == 1     \* words before and after the story path of a description in SpecPath
MaxRuns == 2        \* runs of a script in SpecSync and in SpecBmad
NumStories == 2     \* story files under _bmad-output/stories in SpecBmad
MaxEvents == 3      \* before_prompt_build events in SpecCanon
NumWorkspaces == 2  \* workspace directories the events of SpecCanon name

\* The handlers in flight at a time: any two units may overlap, and a unit
\* that has returned frees its place for the next one.
Units == {1, 2}
Issues == 1..NumIssues

\* The values an issueId takes.  Work item i has the identifier i (as in
\* "CRU-i") and the internal id UuidOf(i); UnknownId is the string
\* "unknown" of line 196.
UuidOf(i) == NumIssues + i
UnknownId == 2 * NumIssues + 1
IssueIds == 1..UnknownId

(***************************************************************************)
(* Program constants                                                       *)
(***************************************************************************)
IN_DEV_STATE_ID == "99a123f5-1bda-48b0-b0b2-38246e2a50d2"
COMPLETED_STATE_ID == "83a9ff51-748f-4242-96d7-2df175e6c2bb"
StateIds == {IN_DEV_STATE_ID, COMPLETED_STATE_ID}

Secrets == {"", "whsec-A", "whsec-B"}

(***************************************************************************)
(* verifySignature                                                         *)
(*                                                                         *)
(* A digest is the pair (key, message): HMAC-SHA256 idealised as a keyed   *)
(* function without collisions.  The hex digest is never the empty string; *)
(* the empty signature (header absent, `signature ?? ""`) is <<>>.         *)
(***************************************************************************)
EmptySignature == <<>>

Hmac(secret, body) == <<secret, body>>

\* verifySignature without the `!secret` guard of line 60.
VerifySignature_NoSecretGuard(body, signature, secret) ==
    IF signature = EmptySignature THEN FALSE
    ELSE Hmac(secret, body) = signature

VerifySignature(body, signature, secret) ==
    IF secret = "" \/ signature = EmptySignature THEN FALSE
    ELSE Hmac(secret, body) = signature

(***************************************************************************)
(* The trigger log: logs/linear-triggers.jsonl                             *)
(*                                                                         *)
(* A file is the sequence of its lines.  A line is the JSON of a           *)
(* TriggerEntry ("json"), text JSON.parse rejects ("corrupt"), or the      *)
(* empty string ("blank").                                                 *)
(***************************************************************************)
Sources == {"webhook", "poll"}
Statuses == {"pending", "spawned", "skipped"}

\* Text is the sequence of its characters.  The two literals of the story
\* path pattern are one character each (Root, Ext); " " stands for any
\* white space; every other character is itself.
Root == "_bmad-output/stories/"
Ext == ".md"
Excluded == {" ", "\"", "'", ")"}

\* The value null of a storyFilePath.
NullPath == <<>>

\* extractStoryFilePath, lines 86-90: null for a description that is null,
\* undefined or empty (all three are the empty text here); else the match
\* of /_bmad-output\/stories\/[^\s"'\)]+\.md/: it starts at the leftmost Root
\* from which a run of one or more characters outside the excluded class
\* leads to an Ext, and, the quantifier being greedy, ends at the last Ext
\* such a run reaches.
ExtractStoryFilePath(description) ==
    LET Ends(i) ==
            {j \in (i + 2)..Len(description) :
                /\ description[j] = Ext
                /\ \A m \in (i + 1)..(j - 1) : description[m] \notin Excluded}
        starts == {i \in 1..Len(description) : description[i] = Root /\ Ends(i) # {}}
    IN  IF description = <<>> \/ starts = {} THEN NullPath
        ELSE LET i == CHOOSE x \in starts : \A y \in starts : x <= y
                 j == CHOOSE x \in Ends(i) : \A y \in Ends(i) : x >= y
             IN  SubSeq(description, i, j)

\* What the tracker holds for a work item: its title and its description.
\* The description of the first work item names a story file, the others
\* name none.
StoryPaths == {<<Root, "a", Ext>>}
TitleOf(id) == <<"title", id>>
DescriptionOf(id) ==
    IF id = 1
    THEN <<"a", " ", Root, "a", Ext, " ", "a">>
    ELSE <<"a", " ", "a">>

\* new Date().toISOString(): the clock is not modelled.
Now == "now"

\* The Omit<TriggerEntry, "status"> a handler passes to writeTrigger for
\* work item id, lines 218-225 and 297-304.
TriggerEntryOf(id, stateId, source) ==
    [issueId |-> id, issueTitle |-> TitleOf(id), stateId |-> stateId,
     triggeredAt |-> Now, source |-> source,
     storyFilePath |-> ExtractStoryFilePath(DescriptionOf(id))]

\* The entry stored without its story path.
FullEntry_NoStoryPath(entry) ==
    [kind |-> "json", issueId |-> entry.issueId, issueTitle |-> entry.issueTitle,
     stateId |-> entry.stateId, triggeredAt |-> entry.triggeredAt,
     source |-> entry.source, status |-> "pending", storyFilePath |-> NullPath]

\* The entry stored as abandoned.
FullEntry_Skipped(entry) ==
    [kind |-> "json", issueId |-> entry.issueId, issueTitle |-> entry.issueTitle,
     stateId |-> entry.stateId, triggeredAt |-> entry.triggeredAt,
     source |-> entry.source, status |-> "skipped",
     storyFilePath |-> entry.storyFilePath]

\* writeTrigger, line 112: { ...entry, status: "pending" }, as the line
\* JSON.stringify makes of it.
FullEntry(entry) ==
    [kind |-> "json", issueId |-> entry.issueId, issueTitle |-> entry.issueTitle,
     stateId |-> entry.stateId, triggeredAt |-> entry.triggeredAt,
     source |-> entry.source, status |-> "pending",
     storyFilePath |-> entry.storyFilePath]

JsonLine(id, source, status) ==
    [FullEntry(TriggerEntryOf(id, IN_DEV_STATE_ID, source)) EXCEPT !.status = status]
CorruptLine ==
    [kind |-> "corrupt", issueId |-> 0, issueTitle |-> <<>>, stateId |-> "",
     triggeredAt |-> "", source |-> "", status |-> "", storyFilePath |-> ""]
BlankLine ==
    [kind |-> "blank", issueId |-> 0, issueTitle |-> <<>>, stateId |-> "",
     triggeredAt |-> "", source |-> "", status |-> "", storyFilePath |-> ""]

Lines == {JsonLine(i, s, st) : i \in Issues, s \in Sources, st \in Statuses}
             \cup {CorruptLine, BlankLine}

\* readTriggerLog: a file that does not exist gives [] (it has no lines);
\* split("\n").filter(Boolean) drops the empty lines, then
\* lines.map(JSON.parse) throws on the first line that is not JSON.
ReadTriggerLog(file) ==
    LET lines == SelectSeq(file, LAMBDA l : l.kind # "blank")
    IN  IF \E k \in 1..Len(lines) : lines[k].kind = "corrupt"
        THEN [threw |-> TRUE, entries |-> <<>>]
        ELSE [threw |-> FALSE, entries |-> lines]

\* The dedup test restricted to the entries of the same source.
AlreadyExists_SameSourceOnly(existing, entry) ==
    \E k \in 1..Len(existing) :
        /\ existing[k].issueId = entry.issueId
        /\ existing[k].source = entry.source
        /\ existing[k].status \in {"pending", "spawned"}

\* The dedup test that forgets the spawned entries.
AlreadyExists_PendingOnly(existing, entry) ==
    \E k \in 1..Len(existing) :
        /\ existing[k].issueId = entry.issueId
        /\ existing[k].status = "pending"

\* The dedup test that also counts the skipped entries.
AlreadyExists_AnyStatus(existing, entry) ==
    \E k \in 1..Len(existing) : existing[k].issueId = entry.issueId

\* The dedup test that looks at the last entry of the log only.
AlreadyExists_LastEntryOnly(existing, entry) ==
    /\ existing # <<>>
    /\ existing[Len(existing)].issueId = entry.issueId
    /\ existing[Len(existing)].status \in {"pending", "spawned"}

\* The dedup test restricted to the entries with the same story path.
AlreadyExists_SamePathOnly(existing, entry) ==
    \E k \in 1..Len(existing) :
        /\ existing[k].issueId = entry.issueId
        /\ existing[k].storyFilePath = entry.storyFilePath
        /\ existing[k].status \in {"pending", "spawned"}

\* writeTrigger, lines 105-109: existing.some(...)
AlreadyExists(existing, entry) ==
    \E k \in 1..Len(existing) :
        /\ existing[k].issueId = entry.issueId
        /\ existing[k].status \in {"pending", "spawned"}

\* writeTrigger writing the file back from the entries it parsed, the new
\* one at their end.
WriteTrigger_RewritesFile(file, entry) ==
    LET read == ReadTriggerLog(file)
    IN  IF read.threw
        THEN [threw |-> TRUE, written |-> FALSE, file |-> file]
        ELSE IF AlreadyExists(read.entries, entry)
        THEN [threw |-> FALSE, written |-> FALSE, file |-> file]
        ELSE [threw |-> FALSE, written |-> TRUE,
              file |-> Append(read.entries, FullEntry(entry))]

\* writeTrigger returning true with nothing appended.
WriteTrigger_NoAppend(file, entry) ==
    LET read == ReadTriggerLog(file)
    IN  IF read.threw
        THEN [threw |-> TRUE, written |-> FALSE, file |-> file]
        ELSE IF AlreadyExists(read.entries, entry)
        THEN [threw |-> FALSE, written |-> FALSE, file |-> file]
        ELSE [threw |-> FALSE, written |-> TRUE, file |-> file]

\* writeTrigger: the outcome of one call on `file`.  `entry` is the
\* Omit<TriggerEntry, "status"> argument.
WriteTrigger(file, entry) ==
    LET read == ReadTriggerLog(file)
    IN  IF read.threw
        THEN [threw |-> TRUE, written |-> FALSE, file |-> file]
        ELSE IF AlreadyExists(read.entries, entry)
        THEN [threw |-> FALSE, written |-> FALSE, file |-> file]
        ELSE [threw |-> FALSE, written |-> TRUE,
              file |-> Append(file, FullEntry(entry))]

\* The file system around the trigger log.  A file that does not exist has
\* no lines.
NoDisk == [logsDir |-> FALSE, triggerFile |-> FALSE]
FullDisk == [logsDir |-> TRUE, triggerFile |-> TRUE]
DisksOf(file) ==
    IF file = <<>>
    THEN {NoDisk, [logsDir |-> TRUE, triggerFile |-> FALSE], FullDisk}
    ELSE {FullDisk}

\* writeTrigger without its mkdirSync.
Mkdir_Skipped(d) == d

\* mkdirSync(logsDir, { recursive: true }), lines 67 and 102.
Mkdir(d) == [d EXCEPT !.logsDir = TRUE]

\* writeTrigger, lines 101-114, on the file system d: the directory is
\* made first, whatever follows; existsSync answers for a file that is not
\* there (it has no lines to read); appendFileSync makes the file, and
\* throws when its directory does not exist.
WriteTriggerOnDisk(d, file, entry) ==
    LET made == Mkdir(d)
        w == WriteTrigger(file, entry)
    IN  IF w.written /\ ~made.logsDir
        THEN [threw |-> TRUE, written |-> FALSE, file |-> file, disk |-> made]
        ELSE [threw |-> w.threw, written |-> w.written, file |-> w.file,
              disk |-> [made EXCEPT !.triggerFile = @ \/ w.written]]

(***************************************************************************)
(* Inputs of the gateway                                                   *)
(***************************************************************************)
\* A request body: text JSON.parse rejects (json = FALSE), or a payload
\* {type, action, data: {identifier, id, title, description, teamId,
\* stateId}, updatedFrom}.  `prev` says whether updatedFrom.stateId is
\* present; `item` is the work item the event is about, whose title and
\* description data carries; `identifier` and `uuid` are data.identifier
\* and data.id, 0 when the payload has none.
UnparseableBody ==
    [json |-> FALSE, type |-> "", action |-> "", prev |-> FALSE,
     teamId |-> "", stateId |-> "", item |-> 0, identifier |-> 0, uuid |-> 0]
NoBody ==
    [json |-> FALSE, type |-> "", action |-> "", prev |-> FALSE,
     teamId |-> "", stateId |-> "", item |-> 0, identifier |-> -1, uuid |-> 0]

\* The deliveries of the gateway runs: for every work item an update into
\* the target state and one into another state, and one delivery failing
\* each filter rule or the parse.
IssueUpdate(id, stateId, teamId) ==
    [json |-> TRUE, type |-> "Issue", action |-> "update", prev |-> TRUE,
     teamId |-> teamId, stateId |-> stateId, item |-> id, identifier |-> id,
     uuid |-> UuidOf(id)]

\* An update of work item id into the target state whose data has no
\* identifier, and one whose data has neither identifier nor id.
UuidOnlyUpdate(id) ==
    [IssueUpdate(id, IN_DEV_STATE_ID, "team-1") EXCEPT !.identifier = 0]
AnonymousUpdate(id) ==
    [IssueUpdate(id, IN_DEV_STATE_ID, "team-1") EXCEPT !.identifier = 0, !.uuid = 0]

DeliveredBodies ==
    {IssueUpdate(id, st, "team-1") : id \in Issues, st \in StateIds}
        \cup {AnonymousUpdate(id) : id \in Issues}
        \cup {UuidOnlyUpdate(1),
              IssueUpdate(1, IN_DEV_STATE_ID, "team-2"),
              [IssueUpdate(1, IN_DEV_STATE_ID, "team-1") EXCEPT !.type = "Comment"],
              [IssueUpdate(1, IN_DEV_STATE_ID, "team-1") EXCEPT !.action = "create"],
              [IssueUpdate(1, IN_DEV_STATE_ID, "team-1") EXCEPT !.prev = FALSE],
              UnparseableBody}

\* The x-linear-signature header of a delivery of `body`: absent, or the
\* digest some sender computed with some key over this or another body.
Signatures(body) ==
    {EmptySignature}
        \cup {Hmac(s, body) : s \in Secrets}
        \cup {Hmac("whsec-A", UnparseableBody)}

\* The nodes a tracker query returns: distinct issues, each with its state.
Nodes == [identifier : Issues, stateId : StateIds]
RECURSIVE NodeListsOfLen(_)
NodeListsOfLen(n) ==
    IF n = 0 THEN {<<>>}
    ELSE {Append(l, nd) : l \in NodeListsOfLen(n - 1), nd \in Nodes}
DistinctIds(l) ==
    \A a, b \in 1..Len(l) : a # b => l[a].identifier # l[b].identifier
PollResults ==
    {l \in UNION {NodeListsOfLen(n) : n \in 0..NumIssues} : DistinctIds(l)}

(***************************************************************************)
(* The gateway                                                             *)
(***************************************************************************)
\* The runtimes a run starts in: plugin config and spawn capability.  One
\* with everything set, and one for each setting left out or turned off.
FullRuntime ==
    [webhookSecret |-> "whsec-A", teamId |-> "team-1", logEvents |-> TRUE,
     sessions |-> TRUE]
Runtimes ==
    {FullRuntime,
     [FullRuntime EXCEPT !.webhookSecret = ""],
     [FullRuntime EXCEPT !.teamId = ""],
     [FullRuntime EXCEPT !.logEvents = FALSE],
     [FullRuntime EXCEPT !.sessions = FALSE]}

\* getConfig, lines 42-48, applied to the plugin config of runtime rt.
GetConfig(rt) ==
    [webhookSecret |-> rt.webhookSecret, teamId |-> rt.teamId,
     logEvents |-> rt.logEvents]

\* register(api), lines 152-155, in runtime rt on the file system d with
\* the trigger log holding file: nothing received yet.
GatewayStart(rt, d, file) ==
    /\ cfg = GetConfig(rt)
    /\ apiSessions = rt.sessions
    /\ ledger = file
    /\ disk = d
    /\ eventLog = 0
    /\ kind = [u \in Units |-> "none"]
    /\ pc = [u \in Units |-> "idle"]
    /\ response = [u \in Units |-> 0]
    /\ rawBody = [u \in Units |-> NoBody]
    /\ issueId = [u \in Units |-> 0]
    /\ written = [u \in Units |-> "none"]
    /\ issues = [u \in Units |-> <<>>]
    /\ triggeredCount = [u \in Units |-> 0]
    /\ pollReturn = [u \in Units |-> "none"]
    /\ started = 0
    /\ spawnsSinceRearm = [i \in IssueIds |-> 0]

GatewayInit == \E rt \in Runtimes : GatewayStart(rt, NoDisk, <<>>)

\* The unit whose synchronous code is on the stack.  No other handler of the
\* process takes a step until it reaches its next await or has returned.
Running == \E u \in Units : pc[u] \in {"responded", "dispatch", "loop", "return"}

\* A new unit takes the first free place.
CanStart(u) ==
    /\ started < MaxUnits
    /\ pc[u] = "idle"
    /\ \A v \in Units : v < u => pc[v] # "idle"
    /\ ~Running

\* The signature test of the webhook handler, line 171.
SignatureRejected(body, signature) ==
    cfg.webhookSecret # "" /\ ~VerifySignature(body, signature, cfg.webhookSecret)

\* (api as any).sessions?.spawn({...}): the call is made when the runtime
\* has the capability.
SpawnCall(id) ==
    IF apiSessions
    THEN [spawnsSinceRearm EXCEPT ![id] = @ + 1]
    ELSE spawnsSinceRearm

\* The 401 branch without its `return`: the handler falls through to the
\* processing.
AfterReject_FallThrough(status) == "responded"

\* Lines 164 and 175: `return` after res.end() of a 405 or a 401.
AfterReject(status) == "return"

\* An exception that no catch takes: the promise of the handler rejects.
Caught_Nowhere(k) == "threw"

\* The catch of the webhook handler alone.
Caught_PushOnly(k) == IF k = "webhook" THEN "return" ELSE "threw"

\* Lines 248-250 and 336-338: an exception thrown inside the try of a
\* handler is taken by its catch, which logs it (webhook) or makes the
\* returned message of it (poll); the handler returns.
Caught(k) == "return"

\* Webhook handler, lines 161-167: the method test, then await parseBody.
WebhookArrive(u, method) ==
    /\ CanStart(u)
    /\ kind' = [kind EXCEPT ![u] = "webhook"]
    /\ started' = started + 1
    /\ IF method # "POST"
       THEN /\ response' = [response EXCEPT ![u] = 405]
            /\ pc' = [pc EXCEPT ![u] = AfterReject(405)]
       ELSE /\ response' = response
            /\ pc' = [pc EXCEPT ![u] = "parseBody"]
    /\ UNCHANGED <<cfg, apiSessions, ledger, disk, eventLog, rawBody, issueId, written,
                   issues, triggeredCount, pollReturn, spawnsSinceRearm>>

\* The handler answering only once the processing is over.
StatusOnAccept_Deferred(body) == 0

\* Lines 179-180: res.writeHead(200) and res.end() before the processing.
StatusOnAccept(body) == 200

\* Webhook handler, lines 167-180: the body has arrived; 401 on a bad
\* signature, else 200 at once.
WebhookVerify(u, body, signature) ==
    /\ pc[u] = "parseBody"
    /\ ~Running
    /\ rawBody' = [rawBody EXCEPT ![u] = body]
    /\ IF SignatureRejected(body, signature)
       THEN /\ response' = [response EXCEPT ![u] = 401]
            /\ pc' = [pc EXCEPT ![u] = AfterReject(401)]
       ELSE /\ response' = [response EXCEPT ![u] = StatusOnAccept(body)]
            /\ pc' = [pc EXCEPT ![u] = "responded"]
    /\ UNCHANGED <<started, cfg, apiSessions, ledger, disk, eventLog, kind, issueId, written,
                   issues, triggeredCount, pollReturn, spawnsSinceRearm>>

\* Webhook handler, lines 227-235: the spawn attempt follows the if / else
\* on `written`; it is made whatever writeTrigger returned.
WebhookSpawns(w) == TRUE

\* The filter rules without the test of the previous state.
PassesFilters_NoPrevRule(payload) ==
    /\ payload.type = "Issue" /\ payload.action = "update"
    /\ ~(cfg.teamId # "" /\ payload.teamId # cfg.teamId)

\* The filter rules without the test of the team.
PassesFilters_NoTeamRule(payload) ==
    /\ payload.type = "Issue" /\ payload.action = "update"
    /\ payload.prev

\* Webhook handler, lines 188-192: the three `return`s on the payload.
PassesFilters(payload) ==
    /\ payload.type = "Issue" /\ payload.action = "update"
    /\ payload.prev
    /\ ~(cfg.teamId # "" /\ payload.teamId # cfg.teamId)

\* Line 196: data?.identifier ?? data?.id ?? "unknown".
IssueIdOf(payload) ==
    IF payload.identifier # 0 THEN payload.identifier
    ELSE IF payload.uuid # 0 THEN payload.uuid
    ELSE UnknownId

\* Every state taken for the target state.
IsTargetState_Any(stateId) == TRUE

\* Lines 216 and 292: the state of the work item is IN_DEV_STATE_ID.
IsTargetState(stateId) == stateId = IN_DEV_STATE_ID

\* The event log written for the updates into the target state only.
EventLogLines_TargetOnly(c, payload) ==
    IF c.logEvents /\ payload.stateId = IN_DEV_STATE_ID THEN 1 ELSE 0

\* Lines 203-213: `if (cfg.logEvents) logEvent(...)`, one line per call.
EventLogLines(c, payload) == IF c.logEvents THEN 1 ELSE 0

\* Webhook handler, lines 183-231: everything from JSON.parse to the
\* return of writeTrigger, inside the try whose catch only logs.
WebhookProcess(u) ==
    LET payload == rawBody[u]
        id == IssueIdOf(payload)
        logged == IF EventLogLines(cfg, payload) > 0 THEN Mkdir(disk) ELSE disk
        w == WriteTriggerOnDisk(logged, ledger,
                 [TriggerEntryOf(payload.item, payload.stateId, "webhook")
                      EXCEPT !.issueId = id])
    IN  /\ pc[u] = "responded"
        /\ IF ~payload.json
           THEN /\ pc' = [pc EXCEPT ![u] = Caught("webhook")]
                /\ UNCHANGED <<ledger, disk, eventLog, issueId, written, spawnsSinceRearm>>
           ELSE IF ~PassesFilters(payload)
           THEN /\ pc' = [pc EXCEPT ![u] = "return"]
                /\ UNCHANGED <<ledger, disk, eventLog, issueId, written, spawnsSinceRearm>>
           ELSE /\ eventLog' = eventLog + EventLogLines(cfg, payload)
                /\ issueId' = [issueId EXCEPT ![u] = id]
                /\ IF ~IsTargetState(payload.stateId)
                   THEN /\ pc' = [pc EXCEPT ![u] = "return"]
                        /\ disk' = logged
                        /\ UNCHANGED <<ledger, written, spawnsSinceRearm>>
                   ELSE IF w.threw
                   THEN /\ pc' = [pc EXCEPT ![u] = Caught("webhook")]
                        /\ written' = [written EXCEPT ![u] = "threw"]
                        /\ disk' = w.disk
                        /\ UNCHANGED <<ledger, spawnsSinceRearm>>
                   ELSE /\ ledger' = w.file
                        /\ disk' = w.disk
                        /\ written' = [written EXCEPT ![u] = IF w.written THEN "true" ELSE "false"]
                        /\ spawnsSinceRearm' = spawnsSinceRearm
                        /\ pc' = [pc EXCEPT ![u] =
                                     IF WebhookSpawns(w) THEN "dispatch" ELSE "return"]
        /\ UNCHANGED <<started, cfg, apiSessions, kind, response, rawBody, issues, triggeredCount,
                       pollReturn>>

\* Lines 234-240 and 311-317: the handler makes its spawn attempt, the
\* trigger log already written.
SpawnAttempt(u) ==
    /\ pc[u] = "dispatch"
    /\ spawnsSinceRearm' = SpawnCall(issueId[u])
    /\ pc' = [pc EXCEPT ![u] = "awaitSpawn"]
    /\ UNCHANGED <<started, cfg, apiSessions, ledger, disk, eventLog, kind, response, rawBody,
                   issueId, written, issues, triggeredCount, pollReturn>>

\* A rejected spawn left uncaught: it ends the handler.
AfterSpawn_Uncaught(k, ok) ==
    IF k = "poll" /\ ok THEN "loop" ELSE "return"

\* Where the handler goes on once the spawn has settled: the rejection is
\* caught (lines 244-246, 321-323), so the poll handler takes its next
\* iteration and the webhook handler leaves its try.
AfterSpawn(k, ok) ==
    IF k = "poll" THEN "loop" ELSE "return"

\* Lines 235-246 and 312-323: the awaited spawn settles.  A rejection is
\* caught and logged; either way the handler goes on: the webhook handler
\* returns, the poll handler takes the next iteration of its loop.
SpawnSettle(u, ok) ==
    /\ pc[u] = "awaitSpawn"
    /\ ~Running
    /\ pc' = [pc EXCEPT ![u] = AfterSpawn(kind[u], ok)]
    /\ IF kind[u] = "poll"
       THEN /\ issueId' = [issueId EXCEPT ![u] = 0]
            /\ written' = [written EXCEPT ![u] = "none"]
       ELSE UNCHANGED <<issueId, written>>
    /\ UNCHANGED <<started, cfg, apiSessions, ledger, disk, eventLog, kind, response, rawBody,
                   issues, triggeredCount, pollReturn, spawnsSinceRearm>>

\* The sweep run whether a team is configured or not.
NoTeam_Never(teamId) == FALSE

\* Line 260: `!teamId`.
NoTeam(teamId) == teamId = ""

\* linear-poll handler, lines 259-282: no teamId, no query.
PollStart(u) ==
    /\ CanStart(u)
    /\ kind' = [kind EXCEPT ![u] = "poll"]
    /\ started' = started + 1
    /\ IF NoTeam(cfg.teamId)
       THEN /\ pollReturn' = [pollReturn EXCEPT ![u] = "noTeam"]
            /\ pc' = [pc EXCEPT ![u] = "return"]
       ELSE /\ pollReturn' = pollReturn
            /\ pc' = [pc EXCEPT ![u] = "query"]
    /\ UNCHANGED <<cfg, apiSessions, ledger, disk, eventLog, response, rawBody, issueId,
                   written, issues, triggeredCount, spawnsSinceRearm>>

\* linear-poll handler, lines 282-286 and 336-338: the query settles.
PollQuerySettle(u, ok, nodes) ==
    /\ pc[u] = "query"
    /\ ~Running
    /\ IF ~ok
       THEN /\ pollReturn' = [pollReturn EXCEPT ![u] = "failed"]
            /\ pc' = [pc EXCEPT ![u] = Caught("poll")]
            /\ issues' = issues
       ELSE IF nodes = <<>>
       THEN /\ pollReturn' = [pollReturn EXCEPT ![u] = "empty"]
            /\ pc' = [pc EXCEPT ![u] = "return"]
            /\ issues' = issues
       ELSE /\ pollReturn' = pollReturn
            /\ pc' = [pc EXCEPT ![u] = "loop"]
            /\ issues' = [issues EXCEPT ![u] = nodes]
    /\ UNCHANGED <<started, cfg, apiSessions, ledger, disk, eventLog, kind, response, rawBody, issueId,
                   written, triggeredCount, spawnsSinceRearm>>

\* The sweep making its spawn attempt for every node in the target state.
PollSpawns_Always(w) == TRUE

\* linear-poll handler, lines 306-324: the spawn attempt sits inside
\* `if (written)`.
PollSpawns(w) == w.written

\* linear-poll handler, lines 290-309: one iteration of the for loop, up to
\* its end or to the spawn attempt.  issueId and written are
\* consts of the iteration.  A throw of writeTrigger leaves the loop for the
\* catch of line 336.
PollItem(u) ==
    LET issue == Head(issues[u])
        id == issue.identifier
        w == WriteTriggerOnDisk(disk, ledger, TriggerEntryOf(id, IN_DEV_STATE_ID, "poll"))
    IN  /\ pc[u] = "loop"
        /\ issues[u] # <<>>
        /\ IF ~IsTargetState(issue.stateId)
           THEN /\ issues' = [issues EXCEPT ![u] = Tail(@)]
                /\ UNCHANGED <<ledger, disk, issueId, written, triggeredCount, pollReturn,
                               spawnsSinceRearm, pc>>
           ELSE IF w.threw
           THEN /\ pollReturn' = [pollReturn EXCEPT ![u] = "failed"]
                /\ pc' = [pc EXCEPT ![u] = Caught("poll")]
                /\ disk' = w.disk
                /\ UNCHANGED <<ledger, issues, issueId, written, triggeredCount,
                               spawnsSinceRearm>>
           ELSE /\ ledger' = w.file
                /\ disk' = w.disk
                /\ issues' = [issues EXCEPT ![u] = Tail(@)]
                /\ pollReturn' = pollReturn
                /\ spawnsSinceRearm' = spawnsSinceRearm
                /\ triggeredCount' = [triggeredCount EXCEPT ![u] =
                                         IF w.written THEN @ + 1 ELSE @]
                /\ IF PollSpawns(w)
                   THEN /\ pc' = [pc EXCEPT ![u] = "dispatch"]
                        /\ issueId' = [issueId EXCEPT ![u] = id]
                        /\ written' = [written EXCEPT ![u] =
                                          IF w.written THEN "true" ELSE "false"]
                   ELSE UNCHANGED <<pc, issueId, written>>
        /\ UNCHANGED <<started, cfg, apiSessions, eventLog, kind, response, rawBody>>

\* linear-poll handler, lines 328-335: the loop is over, the report is
\* returned.
PollReport(u) ==
    /\ pc[u] = "loop"
    /\ issues[u] = <<>>
    /\ pollReturn' = [pollReturn EXCEPT ![u] = "report"]
    /\ pc' = [pc EXCEPT ![u] = "return"]
    /\ UNCHANGED <<started, cfg, apiSessions, ledger, disk, eventLog, kind, response, rawBody, issueId,
                   written, issues, triggeredCount, spawnsSinceRearm>>

\* A handler returns: its request, response and locals are released.
Return(u) ==
    /\ pc[u] = "return"
    /\ pc' = [pc EXCEPT ![u] = "idle"]
    /\ kind' = [kind EXCEPT ![u] = "none"]
    /\ response' = [response EXCEPT ![u] = 0]
    /\ rawBody' = [rawBody EXCEPT ![u] = NoBody]
    /\ issueId' = [issueId EXCEPT ![u] = 0]
    /\ written' = [written EXCEPT ![u] = "none"]
    /\ issues' = [issues EXCEPT ![u] = <<>>]
    /\ triggeredCount' = [triggeredCount EXCEPT ![u] = 0]
    /\ pollReturn' = [pollReturn EXCEPT ![u] = "none"]
    /\ UNCHANGED <<started, cfg, apiSessions, ledger, disk, eventLog, spawnsSinceRearm>>

(***************************************************************************)
(* Out-of-band status rewrites of the trigger log (another process: an     *)
(* operator or a drainer).  The file is read, mapped and written back      *)
(* whole, under exclusive access.  A synchronous stretch of a handler      *)
(* touches the records of a work item in one writeTrigger call at most, so *)
(* a rewrite that falls inside the stretch has the effect of one just      *)
(* before or just after it: rewrites are taken between stretches.          *)
(***************************************************************************)
HasStatus(file, id, statuses) ==
    \E k \in 1..Len(file) :
        file[k].kind = "json" /\ file[k].issueId = id /\ file[k].status \in statuses

Rewrite(file, id, from, to) ==
    [k \in 1..Len(file) |->
        IF file[k].kind = "json" /\ file[k].issueId = id /\ file[k].status \in from
        THEN [file[k] EXCEPT !.status = to]
        ELSE file[k]]

\* Completion, pending -> spawned.
MarkSpawned(id) ==
    /\ ~Running
    /\ HasStatus(ledger, id, {"pending"})
    /\ ledger' = Rewrite(ledger, id, {"pending"}, "spawned")
    /\ UNCHANGED <<started, cfg, apiSessions, disk, eventLog, kind, pc, response, rawBody, issueId,
                   written, issues, triggeredCount, pollReturn, spawnsSinceRearm>>

\* Abandonment, pending | spawned -> skipped: re-arms the work item.
MarkSkipped(id) ==
    /\ ~Running
    /\ HasStatus(ledger, id, {"pending", "spawned"})
    /\ ledger' = Rewrite(ledger, id, {"pending", "spawned"}, "skipped")
    /\ spawnsSinceRearm' = [spawnsSinceRearm EXCEPT ![id] = 0]
    /\ UNCHANGED <<started, cfg, apiSessions, disk, eventLog, kind, pc, response, rawBody, issueId,
                   written, issues, triggeredCount, pollReturn>>

(***************************************************************************)
(* Calls of the exported functions on their own                            *)
(***************************************************************************)
(***************************************************************************)
(* GitHub -> Linear sync (scripts/ops/github-linear-sync.js,               *)
(* src/unnamed/part_001).  One run of the script is one Node.js process;   *)
(* runs follow one another.  A run loads the dedup log once, then visits   *)
(* the merged pull requests of each watched repository in turn; it awaits  *)
(* the tracker at getLinearIssue, markLinearDone and postLinearComment.    *)
(* Between and during runs the tracker's users may move an issue.          *)
(***************************************************************************)
WATCHED_REPOS == <<"VTOR-Tech/knowledgebase-console", "cruz-bot/cruzbot-gateway">>
SKIP_STATE_NAMES == {"Done", "Canceled", "Duplicate"}
StateNames == {"In Progress", "Done", "Canceled"}
NoIssueId == 0          \* extractIssueId's null

\* The merged pull requests of the watched repositories: the fields of the
\* GitHub API object the script reads, the CRU number each text holds
\* (NoIssueId when it holds none).  Two of them share their number.
PrA == [repo |-> 1, number |-> 1, ref |-> 1, title |-> 0, body |-> 0]
PrB == [repo |-> 2, number |-> 1, ref |-> 0, title |-> 2, body |-> 1]
PrC == [repo |-> 2, number |-> 2, ref |-> 0, title |-> 0, body |-> 0]
PullRequests == {PrA, PrB, PrC}

\* main, line 259: `${repo}:${pr.number}`
DedupKey(repo, number) == <<repo, number>>
KeyOf(pr) == DedupKey(pr.repo, pr.number)
DedupKeys == {KeyOf(pr) : pr \in PullRequests}

\* extractIssueIdFromPR: branch name, then title, then body.
ExtractIssueIdFromPR(pr) ==
    IF pr.ref # NoIssueId THEN pr.ref
    ELSE IF pr.title # NoIssueId THEN pr.title
    ELSE IF pr.body # NoIssueId THEN pr.body
    ELSE NoIssueId

\* A line of logs/github-linear-sync.jsonl: an entry as appendDedup writes
\* it, or a line that JSON.parse rejects (an append cut short).
DedupEntry(pr, id, action) ==
    [kind |-> "json", repo |-> pr.repo, prNumber |-> pr.number, issueId |-> id,
     action |-> action]
DedupCorruptLine ==
    [kind |-> "corrupt", repo |-> 0, prNumber |-> 0, issueId |-> 0, action |-> ""]

\* loadDedup returning the empty set whatever the file holds.
LoadDedup_Nothing(log) == {}

\* loadDedup: the keys of the lines in file order; the first line that does
\* not parse throws into the catch, which keeps the keys added so far.
LoadDedup(log) ==
    LET bad == {k \in 1..Len(log) : log[k].kind = "corrupt"}
        stop == IF bad = {} THEN Len(log) + 1
                ELSE CHOOSE k \in bad : \A j \in bad : k <= j
    IN  {DedupKey(log[k].repo, log[k].prNumber) : k \in 1..(stop - 1)}

\* appendDedup: nothing in a dry run; otherwise one line, unless mkdirSync
\* or appendFileSync throws (ok = FALSE), which the catch turns into a warning.
AppendDedup(log, entry, dry, ok) ==
    IF dry THEN log
    ELSE IF ok THEN Append(log, entry)
    ELSE log

\* fetchMergedPRs: the pull requests of the repository merged within the
\* lookback, in the order of the API, or none when gh fails.
FetchResults(repo) ==
    IF repo = 1 THEN {<<>>, <<PrA>>}
    ELSE {<<>>, <<PrB>>, <<PrC>>, <<PrB, PrC>>}

\* getLinearIssue: the state name of the issue, or "null".  `reply` is what
\* came back from the tracker: the issue, no issue, a request error, a body
\* that does not parse.
Replies == {"issue", "absent", "error", "garbage"}
GetLinearIssue(key, reply, name) ==
    IF ~key THEN "null"
    ELSE IF reply = "issue" THEN name
    ELSE "null"

\* markLinearDone: whether a mutation is sent, and what the promise
\* resolves to (ok: the tracker applied it and said success).
MarkLinearDone(key, dry, ok) ==
    IF ~key THEN [sent |-> FALSE, result |-> FALSE]
    ELSE IF dry THEN [sent |-> FALSE, result |-> TRUE]
    ELSE [sent |-> TRUE, result |-> ok]

\* postLinearComment: whether a commentCreate mutation is sent.
PostLinearComment(key, dry) == key /\ ~dry

\* The branch taken whatever markLinearDone resolved to.
Closes_Always(marked, dry) == TRUE

\* main, line 319: if (marked || DRY_RUN)
Closes(marked, dry) == marked \/ dry

\* main, lines 292-298: what is appended for a lookup that yielded nothing.
NotFoundAction == "not_found"

Zero == [k \in DedupKeys |-> 0]

\* No run in progress, nothing on disk, every issue in progress.  The last
\* seven fields are the record of what the runs did: the log as the current
\* run found it, the pull requests it looked up, sent a mutation and sent a
\* comment for, those it skipped at the dedup check (stats.prsDedupSkipped),
\* the successful mark-Done mutations per pull request, the
\* pull requests whose last visit ended in a failed mark-Done, and those
\* for which a lookup yielded nothing.
SyncIdle ==
    [pc |-> "idle", runs |-> 0, DRY_RUN |-> FALSE, LINEAR_API_KEY |-> TRUE,
     dedupLog |-> <<>>, dedup |-> {}, repo |-> 1, prs |-> <<>>,
     linearIssue |-> "null", marked |-> FALSE,
     stateName |-> [i \in Issues |-> "In Progress"],
     logAtStart |-> <<>>, lookedUp |-> {}, markSent |-> {}, commented |-> {},
     skipped |-> {}, doneCount |-> Zero, failed |-> {}, nothing |-> {}]

\* A run starts: main up to the for loop (loadDedup, line 247).
SyncStart(dry, key) ==
    /\ ghSync.pc = "idle"
    /\ ghSync' = [ghSync EXCEPT !.pc = "repo", !.runs = @ + 1,
                                !.DRY_RUN = dry, !.LINEAR_API_KEY = key,
                                !.dedup = LoadDedup(ghSync.dedupLog),
                                !.repo = 1, !.prs = <<>>,
                                !.linearIssue = "null", !.marked = FALSE,
                                !.logAtStart = ghSync.dedupLog,
                                !.lookedUp = {}, !.markSent = {}, !.commented = {},
                                !.skipped = {}]

\* The head of the outer loop: fetchMergedPRs for the next watched
\* repository, or the summary and the end of the run.
SyncFetch(found) ==
    /\ ghSync.pc = "repo"
    /\ IF ghSync.repo > Len(WATCHED_REPOS)
       THEN ghSync' = [ghSync EXCEPT !.pc = "idle"]
       ELSE /\ found \in FetchResults(ghSync.repo)
            /\ ghSync' = [ghSync EXCEPT !.pc = "pr", !.prs = found]

\* The head of the inner loop, up to the await of getLinearIssue: the dedup
\* check and the extraction of the issue id (lines 257-281).
SyncVisit(appendOk) ==
    /\ ghSync.pc = "pr"
    /\ IF ghSync.prs = <<>>
       THEN ghSync' = [ghSync EXCEPT !.pc = "repo", !.repo = @ + 1]
       ELSE LET pr == Head(ghSync.prs)
                dedupKey == DedupKey(pr.repo, pr.number)
                id == ExtractIssueIdFromPR(pr)
            IN  IF dedupKey \in ghSync.dedup
                THEN ghSync' = [ghSync EXCEPT !.prs = Tail(@),
                                              !.skipped = @ \cup {dedupKey}]
                ELSE IF id = NoIssueId
                THEN ghSync' = [ghSync EXCEPT
                        !.prs = Tail(@),
                        !.dedup = @ \cup {dedupKey},
                        !.dedupLog = AppendDedup(@, DedupEntry(pr, id, "no_match"),
                                                 ghSync.DRY_RUN, appendOk)]
                ELSE ghSync' = [ghSync EXCEPT !.pc = "lookup",
                                              !.lookedUp = @ \cup {dedupKey}]

\* getLinearIssue settles: lines 292-308.
SyncLookup(reply, appendOk) ==
    /\ ghSync.pc = "lookup"
    /\ LET pr == Head(ghSync.prs)
           dedupKey == DedupKey(pr.repo, pr.number)
           id == ExtractIssueIdFromPR(pr)
           linearIssue == GetLinearIssue(ghSync.LINEAR_API_KEY, reply, ghSync.stateName[id])
       IN  IF linearIssue = "null"
           THEN ghSync' = [ghSync EXCEPT
                   !.pc = "pr", !.prs = Tail(@), !.linearIssue = "null",
                   !.dedup = @ \cup {dedupKey},
                   !.nothing = @ \cup {dedupKey}, !.failed = @ \ {dedupKey},
                   !.dedupLog = AppendDedup(@, DedupEntry(pr, id, NotFoundAction),
                                            ghSync.DRY_RUN, appendOk)]
           ELSE IF linearIssue \in SKIP_STATE_NAMES
           THEN ghSync' = [ghSync EXCEPT
                   !.pc = "pr", !.prs = Tail(@), !.linearIssue = linearIssue,
                   !.dedup = @ \cup {dedupKey}, !.failed = @ \ {dedupKey},
                   !.dedupLog = AppendDedup(@, DedupEntry(pr, id, "state_skipped"),
                                            ghSync.DRY_RUN, appendOk)]
           ELSE ghSync' = [ghSync EXCEPT !.pc = "mark", !.linearIssue = linearIssue]

\* markLinearDone settles: lines 311-319 and 332-335.
SyncMark(ok) ==
    /\ ghSync.pc = "mark"
    /\ LET pr == Head(ghSync.prs)
           dedupKey == DedupKey(pr.repo, pr.number)
           id == ExtractIssueIdFromPR(pr)
           m == MarkLinearDone(ghSync.LINEAR_API_KEY, ghSync.DRY_RUN, ok)
           done == m.sent /\ m.result
       IN  ghSync' = [ghSync EXCEPT
               !.marked = m.result,
               !.markSent = IF m.sent THEN @ \cup {dedupKey} ELSE @,
               !.stateName = IF done THEN [@ EXCEPT ![id] = "Done"] ELSE @,
               !.doneCount = IF done THEN [@ EXCEPT ![dedupKey] = @ + 1] ELSE @,
               !.failed = IF m.result THEN @ \ {dedupKey} ELSE @ \cup {dedupKey},
               !.pc = IF Closes(m.result, ghSync.DRY_RUN) THEN "comment" ELSE "pr",
               !.prs = IF Closes(m.result, ghSync.DRY_RUN) THEN @ ELSE Tail(@)]

\* postLinearComment settles, whatever it resolved to: lines 320-331.
SyncComment(appendOk) ==
    /\ ghSync.pc = "comment"
    /\ LET pr == Head(ghSync.prs)
           dedupKey == DedupKey(pr.repo, pr.number)
           id == ExtractIssueIdFromPR(pr)
       IN  ghSync' = [ghSync EXCEPT
               !.pc = "pr", !.prs = Tail(@),
               !.commented = IF PostLinearComment(ghSync.LINEAR_API_KEY, ghSync.DRY_RUN)
                             THEN @ \cup {dedupKey} ELSE @,
               !.dedup = @ \cup {dedupKey},
               !.dedupLog = AppendDedup(@, DedupEntry(pr, id, "marked_done"),
                                        ghSync.DRY_RUN, appendOk)]

\* A user of the tracker moves a closed issue back to work.
Reopen(id) ==
    /\ ghSync.stateName[id] \in SKIP_STATE_NAMES
    /\ ghSync' = [ghSync EXCEPT !.stateName = [@ EXCEPT ![id] = "In Progress"]]

(***************************************************************************)
(* BMAD -> Linear sync (scripts/ops/bmad-linear-check.js,                  *)
(* src/unnamed/part_000).  A run is one Node.js process and is synchronous *)
(* from end to end: syncStory blocks in spawnSync while the child creates  *)
(* the issue.  The process can be killed at any point of a run; what it    *)
(* held in memory is lost, what it wrote to .linear-sync.json stays.       *)
(***************************************************************************)
SKIP_NAMES == {"INDEX.md", "README.md", "PLANNING.md", "CHANGELOG.md"}

\* The files under _bmad-output/stories in readdir order: NumStories story
\* files, then two files that are not stories.
DirEntries ==
    [k \in 1..NumStories |-> [path |-> k, name |-> "story.md", md |-> TRUE, story |-> TRUE]]
        \o <<[path |-> NumStories + 1, name |-> "README.md", md |-> TRUE, story |-> FALSE],
             [path |-> NumStories + 2, name |-> "story.txt", md |-> FALSE, story |-> TRUE]>>

\* isStoryFile: not a skipped name, ends in .md, has "story" in its name.
IsStoryFile(f) == f.name \notin SKIP_NAMES /\ f.md /\ f.story

\* scanStories: the relative paths of the story files, in directory order.
ScanStories(dir) ==
    LET kept == SelectSeq(dir, IsStoryFile)
    IN  [k \in 1..Len(kept) |-> kept[k].path]

\* .linear-sync.json: missing; written whole by saveManifest; or cut short
\* by a kill inside writeFileSync, which truncates before it writes.
NoManifest == [exists |-> FALSE, parses |-> TRUE, entries |-> <<>>]
TornManifest == [exists |-> TRUE, parses |-> FALSE, entries |-> <<>>]

\* loadManifest: the entries of the file; none when the file is missing and
\* none when it does not parse ("starting fresh").
LoadManifest(file) ==
    IF ~file.exists THEN <<>>
    ELSE IF file.parses THEN file.entries
    ELSE <<>>

\* saveManifest: the file after writeFileSync returned.
SaveManifest(entries) == [exists |-> TRUE, parses |-> TRUE, entries |-> entries]

\* syncedPaths: the set of the storyFilePath of the entries.
SyncedPaths(entries) == {entries[k] : k \in 1..Len(entries)}

\* syncStory: "created", the child created the issue and exited 0;
\* "failed", copyFileSync or the child failed and the catch returned
\* { success: false }; "threw", mkdtempSync threw, ahead of the try.
SyncStoryOutcomes == {"created", "failed", "threw"}

\* No run in progress.  ended is how the last run ended ("returned" from
\* main, "caught" by the top-level catch, "killed"); attempted, created and
\* fileAtStart are the record of the current run: the stories handed to
\* syncStory, the issues created, the manifest file as the run found it;
\* syncCount is the number of issues created per story over all runs.
BmadIdle ==
    [pc |-> "idle", runs |-> 0, ended |-> "none", file |-> NoManifest,
     manifest |-> <<>>, unsynced |-> <<>>, fileAtStart |-> NoManifest,
     attempted |-> {}, created |-> {}, syncCount |-> [s \in 1..NumStories |-> 0]]

\* main up to the sync loop: lines 164-202.
BmadStart(dry) ==
    LET manifest == LoadManifest(bmadSync.file)
        alreadySynced == SyncedPaths(manifest)
        allStories == ScanStories(DirEntries)
        unsynced == SelectSeq(allStories, LAMBDA p : p \notin alreadySynced)
        returns == unsynced = <<>> \/ dry
    IN  /\ bmadSync.pc = "idle"
        /\ bmadSync' = [bmadSync EXCEPT
               !.pc = IF returns THEN "idle" ELSE "loop",
               !.ended = IF returns THEN "returned" ELSE "none",
               !.runs = @ + 1,
               !.manifest = manifest,
               !.unsynced = IF returns THEN <<>> ELSE unsynced,
               !.fileAtStart = bmadSync.file,
               !.attempted = {}, !.created = {}]

\* The head of the for loop and syncStory(relPath): lines 204-206, or the
\* summary when no story is left: lines 225-230.
BmadSync(outcome) ==
    /\ bmadSync.pc = "loop"
    /\ IF bmadSync.unsynced = <<>>
       THEN bmadSync' = [bmadSync EXCEPT !.pc = "idle", !.ended = "returned"]
       ELSE LET relPath == Head(bmadSync.unsynced)
            IN  bmadSync' = [bmadSync EXCEPT
                    !.attempted = @ \cup {relPath},
                    !.created = IF outcome = "created" THEN @ \cup {relPath} ELSE @,
                    !.syncCount = IF outcome = "created"
                                  THEN [@ EXCEPT ![relPath] = @ + 1] ELSE @,
                    !.pc = IF outcome = "created" THEN "synced"
                           ELSE IF outcome = "failed" THEN "loop"
                           ELSE "idle",
                    !.ended = IF outcome = "threw" THEN "caught" ELSE @,
                    !.unsynced = IF outcome = "failed" THEN Tail(@) ELSE @]

\* result.success: manifest.entries.push and saveManifest, lines 208-218.
\* writeFileSync may throw (ok = FALSE); nothing in main catches it.
BmadSave(ok) ==
    /\ bmadSync.pc = "synced"
    /\ LET entries == Append(bmadSync.manifest, Head(bmadSync.unsynced))
       IN  bmadSync' = [bmadSync EXCEPT
               !.manifest = entries,
               !.file = IF ok THEN SaveManifest(entries) ELSE @,
               !.pc = IF ok THEN "loop" ELSE "idle",
               !.ended = IF ok THEN @ ELSE "caught",
               !.unsynced = IF ok THEN Tail(@) ELSE @]

\* The process is killed.  torn: the kill fell inside writeFileSync.
BmadKill(torn) ==
    /\ bmadSync.pc # "idle"
    /\ torn => bmadSync.pc = "synced"
    /\ bmadSync' = [bmadSync EXCEPT
           !.pc = "idle", !.ended = "killed",
           !.file = IF torn THEN TornManifest ELSE @]

(***************************************************************************)
(* Canon enforcer (src/extensions/canon-enforcer/index.ts): the            *)
(* before_prompt_build hook and its osReadmeCache.  The handler has no     *)
(* await: an event is handled in one step.  os/README.md of a workspace    *)
(* is written and removed by others at any time.                           *)
(***************************************************************************)
\* What os/README.md can hold; the first is the empty file.
ReadmeTexts == {"", "readme a", "readme b"}
NoReadme == [exists |-> FALSE, text |-> ""]

\* let osReadmeCache: string | null = null
NullCache == [isNull |-> TRUE, text |-> ""]

\* readFileSync(readmePath, "utf-8"): throws when there is no file.
ReadFileSync(file) ==
    IF file.exists THEN [threw |-> FALSE, text |-> file.text]
    ELSE [threw |-> TRUE, text |-> ""]

\* The test that reads again whenever the cache is falsy.
NeedsRead_WhenFalsy(cache) == cache.isNull \/ cache.text = ""

\* line 64: if (osReadmeCache === null)
NeedsRead(cache) == cache.isNull

\* register(api) has returned and no event has been emitted.  dir and
\* returned are the workspaceDir (0: none) and the result of the last
\* event; reads counts the readFileSync calls, readFailed tells whether the
\* call threw.
CanonIdle ==
    [injectOsReadme |-> TRUE, osReadmeCache |-> NullCache,
     files |-> [w \in 1..NumWorkspaces |-> NoReadme],
     events |-> 0, reads |-> 0, readFailed |-> FALSE,
     dir |-> 0, returned |-> [prependContext |-> FALSE, text |-> ""]]

\* One before_prompt_build event with context.workspaceDir = dir: lines
\* 58-80.  Without cfg.injectOsReadme no handler was registered.
BeforePromptBuild(dir) ==
    LET reading == canon.injectOsReadme /\ dir # 0 /\ NeedsRead(canon.osReadmeCache)
        read == ReadFileSync(canon.files[dir])
        osReadmeCache == IF reading
                         THEN [isNull |-> FALSE, text |-> read.text]
                         ELSE canon.osReadmeCache
    IN  canon' = [canon EXCEPT
            !.events = @ + 1,
            !.dir = dir,
            !.reads = IF reading THEN @ + 1 ELSE @,
            !.readFailed = IF reading THEN read.threw ELSE @,
            !.osReadmeCache = osReadmeCache,
            !.returned = IF canon.injectOsReadme /\ dir # 0 /\ osReadmeCache.text # ""
                         THEN [prependContext |-> TRUE, text |-> osReadmeCache.text]
                         ELSE [prependContext |-> FALSE, text |-> ""]]

\* os/README.md of workspace w is written, rewritten or removed.
ReadmeChange(w, file) ==
    /\ canon.files[w] # file
    /\ canon' = [canon EXCEPT !.files = [@ EXCEPT ![w] = file]]

ScriptsIdle == ghSync = SyncIdle /\ bmadSync = BmadIdle /\ canon = CanonIdle

NoVsCall == [body |-> NoBody, signature |-> EmptySignature, secret |-> "", result |-> "none"]
NoLogCall == [fn |-> "none", before |-> <<>>, diskBefore |-> NoDisk, issueId |-> 0,
              source |-> "", threw |-> FALSE, entries |-> <<>>, written |-> FALSE]

NoPairCall == [file |-> <<>>, a |-> TriggerEntryOf(1, IN_DEV_STATE_ID, "webhook"),
               b |-> TriggerEntryOf(1, IN_DEV_STATE_ID, "webhook"),
               ra |-> "none", rb |-> "none"]

NoPathCall == [description |-> <<>>, path |-> NullPath, done |-> FALSE, result |-> NullPath]

\* The gateway as registered in the full runtime, nothing received.
GatewayIdle == GatewayStart(FullRuntime, NoDisk, <<>>)

Init ==
    /\ ScriptsIdle
    /\ GatewayInit
    /\ vsCall = NoVsCall
    /\ logCall = NoLogCall
    /\ pairCall = NoPairCall
    /\ pathCall = NoPathCall

Next ==
    \/ \E u \in Units, method \in {"POST", "GET"} :
           WebhookArrive(u, method) /\ UNCHANGED callVars
    \/ \E u \in Units, body \in DeliveredBodies :
           \E signature \in Signatures(body) :
               WebhookVerify(u, body, signature) /\ UNCHANGED callVars
    \/ \E u \in Units : WebhookProcess(u) /\ UNCHANGED callVars
    \/ \E u \in Units : SpawnAttempt(u) /\ UNCHANGED callVars
    \/ \E u \in Units, ok \in BOOLEAN : SpawnSettle(u, ok) /\ UNCHANGED callVars
    \/ \E u \in Units : PollStart(u) /\ UNCHANGED callVars
    \/ \E u \in Units, ok \in BOOLEAN, nodes \in PollResults :
           PollQuerySettle(u, ok, nodes) /\ UNCHANGED callVars
    \/ \E u \in Units : PollItem(u) /\ UNCHANGED callVars
    \/ \E u \in Units : PollReport(u) /\ UNCHANGED callVars
    \/ \E u \in Units : Return(u) /\ UNCHANGED callVars
    \/ \E id \in IssueIds : MarkSpawned(id) /\ UNCHANGED callVars
    \/ \E id \in IssueIds : MarkSkipped(id) /\ UNCHANGED callVars

Spec == Init /\ [][Next]_vars

(***************************************************************************)
(* SpecFault: the gateway started on a trigger log that may hold a line    *)
(* that is not JSON (an append cut short).                                 *)
(***************************************************************************)
FaultInit ==
    /\ ScriptsIdle
    /\ \E rt \in Runtimes :
           \/ GatewayStart(rt, NoDisk, <<>>)
           \/ GatewayStart(rt, FullDisk, <<CorruptLine>>)
    /\ vsCall = NoVsCall
    /\ logCall = NoLogCall
    /\ pairCall = NoPairCall
    /\ pathCall = NoPathCall

SpecFault == FaultInit /\ [][Next]_vars

(***************************************************************************)
(* SpecLive: the gateway under the scheduling of the Node.js event loop.   *)
(* The synchronous code of a handler that has been entered, or resumed     *)
(* after an await, runs: its steps are taken.  Nothing in the code makes   *)
(* an awaited promise settle: neither the https request of linearGraphQL   *)
(* nor the call of sessions.spawn is given a timeout, so the steps in      *)
(* which they settle are the environment's, with no fairness.              *)
(***************************************************************************)
HandlerStep ==
    \E u \in Units :
        /\ \/ WebhookProcess(u)
           \/ SpawnAttempt(u)
           \/ PollItem(u)
           \/ PollReport(u)
           \/ Return(u)
        /\ UNCHANGED callVars

Fairness == WF_vars(HandlerStep)

SpecLive == FaultInit /\ [][Next]_vars /\ Fairness

(***************************************************************************)
(* SpecSig: verifySignature on bounded bodies, signatures and secrets      *)
(***************************************************************************)
SigBodies ==
    {UnparseableBody,
     IssueUpdate(1, IN_DEV_STATE_ID, "team-1"),
     IssueUpdate(1, COMPLETED_STATE_ID, "team-1")}
SigSignatures ==
    {EmptySignature} \cup {Hmac(s, b) : s \in Secrets, b \in SigBodies}

SigInit ==
    /\ ScriptsIdle
    /\ GatewayIdle
    /\ logCall = NoLogCall
    /\ pairCall = NoPairCall
    /\ pathCall = NoPathCall
    /\ \E b \in SigBodies, sig \in SigSignatures, s \in Secrets :
           vsCall = [body |-> b, signature |-> sig, secret |-> s, result |-> "none"]

\* One call verifySignature(body, signature, secret).
VerifyCall ==
    /\ vsCall.result = "none"
    /\ vsCall' = [vsCall EXCEPT !.result =
                     IF VerifySignature(vsCall.body, vsCall.signature, vsCall.secret)
                     THEN "true" ELSE "false"]
    /\ UNCHANGED <<gatewayVars, logCall, pairCall, pathCall, scriptVars>>

SigNext == VerifyCall

SpecSig == SigInit /\ [][SigNext]_vars

(***************************************************************************)
(* Calls of readTriggerLog and writeTrigger on a log file                  *)
(***************************************************************************)
\* One call readTriggerLog(triggerFilePath).
LogRead ==
    LET r == ReadTriggerLog(ledger)
    IN  /\ logCall.fn = "none"
        /\ logCall' = [NoLogCall EXCEPT !.fn = "read", !.before = ledger,
                                        !.diskBefore = disk,
                                        !.threw = r.threw, !.entries = r.entries]
        /\ UNCHANGED <<gatewayVars, vsCall, pairCall, pathCall, scriptVars>>

\* One call writeTrigger(triggerFilePath, entry).
LogWrite(id, source) ==
    LET w == WriteTriggerOnDisk(disk, ledger, TriggerEntryOf(id, IN_DEV_STATE_ID, source))
    IN  /\ logCall.fn = "none"
        /\ ledger' = w.file
        /\ disk' = w.disk
        /\ logCall' = [NoLogCall EXCEPT !.fn = "write", !.before = ledger,
                                        !.diskBefore = disk,
                                        !.issueId = id, !.source = source,
                                        !.threw = w.threw, !.written = w.written]
        /\ UNCHANGED <<cfg, apiSessions, eventLog, kind, pc, response, rawBody, issueId,
                       written, issues, triggeredCount, pollReturn, started,
                       spawnsSinceRearm, vsCall, pairCall, pathCall, scriptVars>>

\* The call has returned to its caller.
LogDone ==
    /\ logCall.fn # "none"
    /\ logCall' = NoLogCall
    /\ UNCHANGED <<gatewayVars, vsCall, pairCall, pathCall, scriptVars>>

(***************************************************************************)
(* SpecLedger: the trigger log under any sequence of admissions from both  *)
(* paths and of out-of-band rewrites, starting from no file.               *)
(***************************************************************************)
LedgerInit ==
    /\ ScriptsIdle
    /\ \E d \in DisksOf(<<>>) : GatewayStart(FullRuntime, d, <<>>)
    /\ vsCall = NoVsCall
    /\ logCall = NoLogCall
    /\ pairCall = NoPairCall
    /\ pathCall = NoPathCall

LedgerNext ==
    \/ \E id \in Issues, source \in Sources :
           Len(ledger) < MaxLines /\ LogWrite(id, source)
    \/ LogRead
    \/ LogDone
    \/ \E id \in Issues :
           logCall.fn = "none" /\ MarkSpawned(id) /\ UNCHANGED callVars
    \/ \E id \in Issues :
           logCall.fn = "none" /\ MarkSkipped(id) /\ UNCHANGED callVars

SpecLedger == LedgerInit /\ [][LedgerNext]_vars

(***************************************************************************)
(* SpecLog: readTriggerLog and writeTrigger on any file of up to MaxLines  *)
(* lines, malformed and empty lines included.                              *)
(***************************************************************************)
\* The files of n lines.
LogFiles(n) == [1..n -> Lines]

LogInit ==
    /\ ScriptsIdle
    /\ \E n \in 0..MaxLines : \E file \in LogFiles(n) :
           \E d \in DisksOf(file) : GatewayStart(FullRuntime, d, file)
    /\ vsCall = NoVsCall
    /\ logCall = NoLogCall
    /\ pairCall = NoPairCall
    /\ pathCall = NoPathCall

LogNext ==
    \/ LogRead
    \/ \E id \in Issues, source \in Sources : LogWrite(id, source)

SpecLog == LogInit /\ [][LogNext]_vars

(***************************************************************************)
(* SpecPair: writeTrigger called on one and the same file with an entry a  *)
(* and, instead, with an entry b: the two outcomes side by side.           *)
(***************************************************************************)
\* The entries a caller can pass for the known work items: any title, time
\* of triggering, source and story path.
EntryVariants ==
    [issueId : Issues,
     issueTitle : {TitleOf(i) : i \in Issues},
     stateId : {IN_DEV_STATE_ID},
     triggeredAt : {Now, "later"},
     source : Sources,
     storyFilePath : StoryPaths \cup {NullPath}]

\* The outcome of a call as its caller sees it.
OutcomeOf(w) == IF w.threw THEN "threw" ELSE IF w.written THEN "true" ELSE "false"

PairInit ==
    /\ ScriptsIdle
    /\ GatewayIdle
    /\ vsCall = NoVsCall
    /\ logCall = NoLogCall
    /\ pathCall = NoPathCall
    /\ \E n \in 0..MaxPairLines : \E file \in LogFiles(n) :
           \E id \in Issues, b \in EntryVariants :
               pairCall = [file |-> file,
                           a |-> TriggerEntryOf(id, IN_DEV_STATE_ID, "webhook"),
                           b |-> b, ra |-> "none", rb |-> "none"]

\* writeTrigger(file, a) and writeTrigger(file, b), each on the file as it
\* was drawn.
PairWrite ==
    /\ pairCall.ra = "none"
    /\ pairCall' = [pairCall EXCEPT
                       !.ra = OutcomeOf(WriteTrigger(pairCall.file, pairCall.a)),
                       !.rb = OutcomeOf(WriteTrigger(pairCall.file, pairCall.b))]
    /\ UNCHANGED <<gatewayVars, vsCall, logCall, pathCall, scriptVars>>

PairNext == PairWrite

SpecPair == PairInit /\ [][PairNext]_vars

(***************************************************************************)
(* SpecPath: extractStoryFilePath applied to descriptions that name a      *)
(* story file bare, in quotes or in a markdown link, or name none.         *)
(***************************************************************************)
Paths == {<<Root, "a", Ext>>, <<Root, "a", "b", Ext>>}

\* The ways a description writes the path p.
Quoted(q, p) == <<q>> \o p \o <<q>>
Link(label, target) == <<"[">> \o label \o <<"]", "(">> \o target \o <<")">>
Forms(p) ==
    {p, Quoted("\"", p), Quoted("'", p),
     Link(<<"a">>, p), Link(p, p), Link(p, <<"a">>)}

\* The text around it: up to n words, separated by white space; the words
\* before the path hold no Root, the words after it may be paths.
Words == {<<"a">>, <<"b", Ext>>}
RECURSIVE Before(_)
Before(n) ==
    IF n = 0 THEN {<<>>}
    ELSE Before(n - 1) \cup {t \o w \o <<" ">> : t \in Before(n - 1), w \in Words}
RECURSIVE After(_)
After(n) ==
    IF n = 0 THEN {<<>>}
    ELSE After(n - 1) \cup {<<" ">> \o w \o t : t \in After(n - 1), w \in Words \cup Paths}

\* A description and the first story path written in it (NullPath when it
\* has none, and for the description that is null, undefined or empty).
PathInit ==
    /\ ScriptsIdle
    /\ GatewayIdle
    /\ vsCall = NoVsCall
    /\ logCall = NoLogCall
    /\ pairCall = NoPairCall
    /\ \/ \E pre \in Before(MaxContext), post \in After(MaxContext), p \in Paths :
              \E f \in Forms(p) :
                  pathCall = [NoPathCall EXCEPT !.description = pre \o f \o post,
                                               !.path = p]
       \/ \E pre \in Before(MaxContext) :
              \E t \in {<<>>, <<"a">>, <<Root, "a">>, <<Root, Ext>>} :
                  pathCall = [NoPathCall EXCEPT !.description = pre \o t]

\* One call extractStoryFilePath(description).
ExtractCall ==
    /\ ~pathCall.done
    /\ pathCall' = [pathCall EXCEPT !.done = TRUE,
                                    !.result = ExtractStoryFilePath(pathCall.description)]
    /\ UNCHANGED <<gatewayVars, vsCall, logCall, pairCall, scriptVars>>

PathNext == ExtractCall

SpecPath == PathInit /\ [][PathNext]_vars

(***************************************************************************)
(* SpecSync: up to MaxRuns runs of github-linear-sync.js, normal and dry,  *)
(* with and without LINEAR_API_KEY, on a dedup log that is absent or       *)
(* starts with a line that does not parse; appends may fail; the tracker's *)
(* users reopen issues.                                                    *)
(***************************************************************************)
besidesGhSync == <<gatewayVars, vsCall, logCall, pairCall, pathCall, bmadSync, canon>>

SyncInit ==
    /\ GatewayIdle
    /\ vsCall = NoVsCall
    /\ logCall = NoLogCall
    /\ pairCall = NoPairCall
    /\ pathCall = NoPathCall
    /\ bmadSync = BmadIdle
    /\ canon = CanonIdle
    /\ \E log \in {<<>>, <<DedupCorruptLine>>}, names \in [Issues -> StateNames] :
           ghSync = [SyncIdle EXCEPT !.dedupLog = log, !.stateName = names]

SyncNext ==
    \/ \E dry \in BOOLEAN, key \in BOOLEAN :
           ghSync.runs < MaxRuns /\ SyncStart(dry, key) /\ UNCHANGED besidesGhSync
    \/ \E found \in FetchResults(1) \cup FetchResults(2) :
           SyncFetch(found) /\ UNCHANGED besidesGhSync
    \/ \E appendOk \in BOOLEAN : SyncVisit(appendOk) /\ UNCHANGED besidesGhSync
    \/ \E reply \in Replies, appendOk \in BOOLEAN :
           SyncLookup(reply, appendOk) /\ UNCHANGED besidesGhSync
    \/ \E ok \in BOOLEAN : SyncMark(ok) /\ UNCHANGED besidesGhSync
    \/ \E appendOk \in BOOLEAN : SyncComment(appendOk) /\ UNCHANGED besidesGhSync
    \/ \E id \in Issues : Reopen(id) /\ UNCHANGED besidesGhSync

SpecSync == SyncInit /\ [][SyncNext]_vars

(***************************************************************************)
(* SpecBmad: up to MaxRuns runs of bmad-linear-check.js, normal and dry,   *)
(* over NumStories story files, each run free to be killed.                *)
(***************************************************************************)
besidesBmadSync == <<gatewayVars, vsCall, logCall, pairCall, pathCall, ghSync, canon>>

BmadInit ==
    /\ GatewayIdle
    /\ vsCall = NoVsCall
    /\ logCall = NoLogCall
    /\ pairCall = NoPairCall
    /\ pathCall = NoPathCall
    /\ ghSync = SyncIdle
    /\ bmadSync = BmadIdle
    /\ canon = CanonIdle

BmadNext ==
    \/ \E dry \in BOOLEAN :
           bmadSync.runs < MaxRuns /\ BmadStart(dry) /\ UNCHANGED besidesBmadSync
    \/ \E outcome \in SyncStoryOutcomes : BmadSync(outcome) /\ UNCHANGED besidesBmadSync
    \/ \E ok \in BOOLEAN : BmadSave(ok) /\ UNCHANGED besidesBmadSync
    \/ \E torn \in BOOLEAN : BmadKill(torn) /\ UNCHANGED besidesBmadSync

SpecBmad == BmadInit /\ [][BmadNext]_vars

(***************************************************************************)
(* SpecCanon: up to MaxEvents before_prompt_build events after one         *)
(* registration, with and without a workspace directory, while the README  *)
(* files come, change and go.                                              *)
(***************************************************************************)
besidesCanon == <<gatewayVars, vsCall, logCall, pairCall, pathCall, ghSync, bmadSync>>

CanonInit ==
    /\ GatewayIdle
    /\ vsCall = NoVsCall
    /\ logCall = NoLogCall
    /\ pairCall = NoPairCall
    /\ pathCall = NoPathCall
    /\ ghSync = SyncIdle
    /\ bmadSync = BmadIdle
    /\ \E inject \in BOOLEAN : canon = [CanonIdle EXCEPT !.injectOsReadme = inject]

CanonNext ==
    \/ \E dir \in 0..NumWorkspaces :
           canon.events < MaxEvents /\ BeforePromptBuild(dir) /\ UNCHANGED besidesCanon
    \/ \E w \in 1..NumWorkspaces, file \in {NoReadme} \cup [exists : {TRUE}, text : ReadmeTexts] :
           ReadmeChange(w, file) /\ UNCHANGED besidesCanon

SpecCanon == CanonInit /\ [][CanonNext]_vars

(***************************************************************************)
(* Properties                                                              *)
(***************************************************************************)
\* The records of work item id in file that are pending or spawned.
ActiveRecords(file, id) ==
    {k \in 1..Len(file) :
        file[k].kind = "json" /\ file[k].issueId = id
            /\ file[k].status \in {"pending", "spawned"}}

PendingRecords(file, id) ==
    {k \in 1..Len(file) :
        file[k].kind = "json" /\ file[k].issueId = id /\ file[k].status = "pending"}

SkippedRecords(file, id) ==
    {k \in 1..Len(file) :
        file[k].kind = "json" /\ file[k].issueId = id /\ file[k].status = "skipped"}

\* The step changes what the gateway has written or dispatched.
Effect ==
    \/ ledger' # ledger
    \/ eventLog' # eventLog
    \/ spawnsSinceRearm' # spawnsSinceRearm

IsPrefix(a, b) == Len(a) <= Len(b) /\ SubSeq(b, 1, Len(a)) = a

\* C1: after any sequence of admissions from the webhook path and the poll
\* path, in any order and with status rewrites in between, the trigger log
\* holds at most one pending-or-spawned record per work item; an admission
\* appends a record only when the log it found held no pending or spawned
\* record of that work item.
AtMostOneActivePerItem ==
    /\ \A id \in Issues : Cardinality(ActiveRecords(ledger, id)) <= 1
    /\ (logCall.fn = "write" /\ logCall.written) =>
           ActiveRecords(logCall.before, logCall.issueId) = {}

\* Both paths have admitted, a work item has been re-armed and admitted
\* again, and its new record has been completed.
AtMostOneActivePerItem_Witness ==
    \E id \in Issues :
        /\ SkippedRecords(ledger, id) # {}
        /\ HasStatus(ledger, id, {"spawned"})
        /\ \E k, m \in 1..Len(ledger) :
               ledger[k].source = "webhook" /\ ledger[m].source = "poll"

\* C2: with push deliveries and poll sweeps in flight together, whatever the
\* order of their steps, the trigger log never holds two pending records of
\* one work item.
NoDuplicatePending ==
    \A id \in Issues : Cardinality(PendingRecords(ledger, id)) <= 1

\* A poll sweep and a push delivery overlap on one work item entering the
\* target state: the sweep has admitted it and awaits its spawn, the
\* delivery has been deduplicated.
NoDuplicatePending_Witness ==
    \E u, v \in Units :
        /\ kind[u] = "poll" /\ pc[u] = "awaitSpawn" /\ written[u] = "true"
        /\ kind[v] = "webhook" /\ pc[v] = "awaitSpawn" /\ written[v] = "false"
        /\ issueId[u] = issueId[v]
        /\ Cardinality(PendingRecords(ledger, issueId[u])) = 1

\* C3: at most one spawn call is made for a work item until its record is
\* marked skipped.
AtMostOneSpawnPerItem ==
    \A id \in Issues : spawnsSinceRearm[id] <= 1

\* C4: an admission of a work item that has a pending or spawned record
\* returns false, from either source, and leaves the trigger log as it was:
\* same records, same order, same statuses.
DedupedAdmissionLeavesLog ==
    (logCall.fn = "write" /\ ActiveRecords(logCall.before, logCall.issueId) # {}) =>
        /\ ~logCall.threw
        /\ ~logCall.written
        /\ ledger = logCall.before

\* The poll path is refused a work item the webhook path admitted and that
\* has been spawned since, in a log that holds other records too.
DedupedAdmissionLeavesLog_Witness ==
    /\ logCall.fn = "write" /\ logCall.source = "poll" /\ ~logCall.written
    /\ Len(logCall.before) >= 2
    /\ \E k \in ActiveRecords(logCall.before, logCall.issueId) :
           logCall.before[k].source = "webhook" /\ logCall.before[k].status = "spawned"

\* C5: once every pending or spawned record of a work item has been marked
\* skipped, the next admission of it returns true and appends one pending
\* record, however many skipped records the log holds; the skipped records
\* stay where they are.
SkippedRearms ==
    (logCall.fn = "write" /\ ActiveRecords(logCall.before, logCall.issueId) = {}) =>
        /\ ~logCall.threw
        /\ logCall.written
        /\ ledger = Append(logCall.before,
                           JsonLine(logCall.issueId, logCall.source, "pending"))

\* A work item skipped twice is admitted a third time.
SkippedRearms_Witness ==
    /\ logCall.fn = "write" /\ logCall.written
    /\ Cardinality(SkippedRecords(logCall.before, logCall.issueId)) >= 2
    /\ Cardinality(SkippedRecords(ledger, logCall.issueId)) >= 2

\* C6: reading the trigger log skips the lines that are not JSON and returns
\* the well-formed records in file order without throwing; an admission on
\* such a log completes.
MalformedLinesSkipped ==
    /\ logCall.fn = "read" =>
           /\ ~logCall.threw
           /\ logCall.entries = SelectSeq(logCall.before, LAMBDA l : l.kind = "json")
    /\ logCall.fn = "write" => ~logCall.threw

\* C7: verifySignature returns true exactly when the secret is not empty,
\* the signature is not empty and the signature is the digest of the body
\* under the secret; it changes no state.
VerifySignatureIff ==
    vsCall.result # "none" =>
        /\ (vsCall.result = "true") <=>
               /\ vsCall.secret # ""
               /\ vsCall.signature # EmptySignature
               /\ vsCall.signature = Hmac(vsCall.secret, vsCall.body)
        /\ GatewayIdle

\* The signature is the digest of the body under the empty key, the secret
\* is empty, and the answer is false.
VerifySignatureIff_Witness ==
    /\ vsCall.result = "false"
    /\ vsCall.secret = ""
    /\ vsCall.signature = Hmac("", vsCall.body)

\* C8: with no signing secret configured no push delivery leads to a trigger
\* record, an event-log line or a spawn call.
NoSecretPushFailsClosed ==
    cfg.webhookSecret = "" =>
        /\ \A k \in 1..Len(ledger) : ledger[k].source # "webhook"
        /\ eventLog = 0
        /\ \A u \in Units : kind[u] = "webhook" => pc[u] \notin {"responded", "awaitSpawn"}

\* C9: a request answered 405 or 401 appends nothing to the trigger log or
\* the event log and makes no spawn call, in the step that answers and ever
\* after; a request whose method is not POST is answered 405 before its body
\* or signature is looked at.
RejectedRequestIsInert ==
    [][\A u \in Units :
          /\ (response[u] = 0 /\ response'[u] \in {401, 405}) =>
                 ~Effect /\ pc'[u] = "return"
          /\ (response[u] \in {401, 405} /\ pc'[u] # pc[u]) =>
                 ~Effect /\ pc'[u] = "idle"
          /\ WebhookArrive(u, "GET") =>
                 response'[u] = 405 /\ rawBody'[u] = NoBody]_vars

\* A delivery that would have been admitted, had its signature been valid,
\* has been answered 401.
RejectedRequestIsInert_Witness ==
    \E u \in Units :
        /\ response[u] = 401 /\ pc[u] = "return"
        /\ rawBody[u] = IssueUpdate(1, IN_DEV_STATE_ID, cfg.teamId)
        /\ ledger = <<>>

\* C10: a push delivery that passes the signature test is answered 200 in
\* the step that accepts it, before the payload is parsed and before any
\* event-log line, trigger-log access or spawn call; whatever happens in the
\* processing, the response stays 200 and no record leaves the trigger log.
AnsweredBeforeProcessing ==
    [][\A u \in Units :
          kind[u] = "webhook" =>
              /\ (pc[u] = "parseBody" /\ pc'[u] = "responded") =>
                     /\ response'[u] = 200
                     /\ ~Effect
                     /\ written'[u] = "none" /\ issueId'[u] = 0
              /\ (pc'[u] # pc[u] /\ (Effect \/ written'[u] # written[u])) =>
                     response[u] = 200
              /\ (response[u] = 200 /\ pc'[u] # "idle") => response'[u] = 200
              /\ pc'[u] # pc[u] => IsPrefix(ledger, ledger')]_vars

\* The processing of a delivery answered 200 has failed on a body that is
\* not JSON, with records in the trigger log.
AnsweredBeforeProcessing_Witness ==
    \E u \in Units :
        /\ kind[u] = "webhook" /\ response[u] = 200 /\ pc[u] = "return"
        /\ ~rawBody[u].json
        /\ ledger # <<>>

\* The rules a push event has to pass to be admitted, team aside.
Admissible(b) ==
    /\ b.json
    /\ b.type = "Issue" /\ b.action = "update"
    /\ b.prev
    /\ b.stateId = IN_DEV_STATE_ID

\* Unit u takes the step.
Steps(u) == pc'[u] # pc[u] \/ issues'[u] # issues[u]

\* C11: when the spawn made for a newly admitted record succeeds, the
\* record goes from pending to spawned.
CompletionRecorded ==
    [][\A u \in Units :
          (/\ apiSessions
           /\ written[u] = "true"
           /\ PendingRecords(ledger, issueId[u]) # {}
           /\ SpawnSettle(u, TRUE)) =>
              /\ PendingRecords(ledger', issueId[u]) = {}
              /\ HasStatus(ledger', issueId[u], {"spawned"})]_vars

\* C12: a spawn that throws, or a runtime without the spawn capability,
\* changes no record of the trigger log and does not end the ingestion: the
\* webhook handler returns as usual and the poll handler goes on with the
\* work items it has left.
DispatchFailureSwallowed ==
    [][\A u \in Units :
          /\ (pc[u] = "dispatch" /\ Steps(u)) =>
                 ledger' = ledger /\ pc'[u] = "awaitSpawn"
          /\ (pc[u] = "awaitSpawn" /\ Steps(u)) =>
                 /\ ledger' = ledger
                 /\ issues'[u] = issues[u]
                 /\ pollReturn'[u] = pollReturn[u]
                 /\ triggeredCount'[u] = triggeredCount[u]
                 /\ pc'[u] = IF kind[u] = "poll" THEN "loop" ELSE "return"]_vars

\* In a runtime without the spawn capability a sweep has admitted a work
\* item, made no spawn call, and is back in its loop with items left.
DispatchFailureSwallowed_Witness ==
    \E u \in Units :
        /\ ~apiSessions
        /\ kind[u] = "poll" /\ pc[u] = "loop"
        /\ triggeredCount[u] = 1 /\ issues[u] # <<>>
        /\ \E id \in Issues : PendingRecords(ledger, id) # {} /\ spawnsSinceRearm[id] = 0

\* C13: on both paths the spawn attempt of an admission comes after the
\* append of its pending record: at the point between the two the trigger
\* log holds the pending record, and while the spawn is in flight it holds
\* a record of that source for the work item.
AdmittedBeforeDispatch ==
    \A u \in Units :
        written[u] = "true" =>
            /\ pc[u] = "dispatch" =>
                   \E k \in PendingRecords(ledger, issueId[u]) : ledger[k].source = kind[u]
            /\ pc[u] = "awaitSpawn" =>
                   \E k \in 1..Len(ledger) :
                       ledger[k].issueId = issueId[u] /\ ledger[k].source = kind[u]

\* A sweep stands between the append of a record and its spawn attempt.
AdmittedBeforeDispatch_Witness ==
    \E u \in Units :
        /\ kind[u] = "poll" /\ pc[u] = "dispatch" /\ written[u] = "true"
        /\ spawnsSinceRearm[issueId[u]] = 0
        /\ apiSessions

\* C14: a push event is admitted only if its type is "Issue" and its action
\* "update", it carries updatedFrom.stateId, and its new state is the
\* target state.  An event failing the first or the second rule leaves no
\* trace at all; one failing the third only is logged to the event log and
\* leaves the trigger log alone; neither leads to a spawn attempt.
PushFilterRules ==
    [][\A u \in Units :
          (kind[u] = "webhook" /\ pc[u] = "responded" /\ Steps(u) /\ rawBody[u].json) =>
              LET b == rawBody[u] IN
              /\ (ledger' # ledger \/ written'[u] # "none" \/ pc'[u] = "dispatch") =>
                     Admissible(b)
              /\ ~(b.type = "Issue" /\ b.action = "update" /\ b.prev) =>
                     ~Effect /\ pc'[u] = "return"
              /\ ~Admissible(b) =>
                     /\ ledger' = ledger
                     /\ spawnsSinceRearm' = spawnsSinceRearm
                     /\ written'[u] = "none"
                     /\ pc'[u] = "return"]_vars

\* An update into the target state that carries no previous state has been
\* answered 200 and dropped.
PushFilterRules_Witness ==
    \E u \in Units :
        /\ kind[u] = "webhook" /\ pc[u] = "return" /\ response[u] = 200
        /\ rawBody[u].type = "Issue" /\ rawBody[u].action = "update"
        /\ ~rawBody[u].prev /\ rawBody[u].stateId = IN_DEV_STATE_ID
        /\ written[u] = "none" /\ ledger = <<>> /\ eventLog = 0

\* C15: with a team configured, a push event of another team leaves no
\* record, no event-log line and no spawn attempt, although it moves the
\* work item into the target state; with no team configured the event's
\* team is not looked at.
TeamFilter ==
    [][\A u \in Units :
          (kind[u] = "webhook" /\ pc[u] = "responded" /\ Steps(u) /\ Admissible(rawBody[u])) =>
              /\ (cfg.teamId # "" /\ rawBody[u].teamId # cfg.teamId) =>
                     ~Effect /\ written'[u] = "none" /\ pc'[u] = "return"
              /\ cfg.teamId = "" =>
                     /\ written'[u] \in {"true", "false"}
                     /\ pc'[u] = "dispatch"
                     /\ (written'[u] = "true") <=>
                            ActiveRecords(ledger, issueId'[u]) = {}]_vars

\* The update of a work item of team-2 into the target state has been
\* dropped by a gateway configured for team-1.
TeamFilter_Witness ==
    \E u \in Units :
        /\ cfg.teamId = "team-1"
        /\ kind[u] = "webhook" /\ pc[u] = "return" /\ response[u] = 200
        /\ rawBody[u] = IssueUpdate(1, IN_DEV_STATE_ID, "team-2")
        /\ written[u] = "none" /\ ledger = <<>> /\ eventLog = 0

\* The work item the admission of unit u is about: the one whose title and
\* description the payload carries, or the node of the sweep.
SubjectOf(u) == IF kind[u] = "webhook" THEN rawBody[u].item ELSE issueId[u]

\* C16: the record an admission appends has status pending, the target
\* state as its stateId, the admitting path as its source, and the work
\* item id, title, time and story path the handler gave; a null story path
\* is stored as null.
AppendedRecordFields ==
    \A u \in Units :
        (pc[u] = "dispatch" /\ written[u] = "true") =>
            /\ ledger # <<>>
            /\ ledger[Len(ledger)] =
                   [kind |-> "json",
                    issueId |-> issueId[u],
                    issueTitle |-> TitleOf(SubjectOf(u)),
                    stateId |-> IN_DEV_STATE_ID,
                    triggeredAt |-> Now,
                    source |-> kind[u],
                    status |-> "pending",
                    storyFilePath |->
                        IF SubjectOf(u) = 1 THEN <<Root, "a", Ext>> ELSE NullPath]

\* A sweep has appended the record of a work item whose description names
\* no story file, after the webhook path appended one that names one.
AppendedRecordFields_Witness ==
    \E u \in Units :
        /\ kind[u] = "poll" /\ pc[u] = "dispatch" /\ written[u] = "true"
        /\ ledger[Len(ledger)].storyFilePath = NullPath
        /\ \E k \in 1..Len(ledger) :
               ledger[k].source = "webhook" /\ ledger[k].storyFilePath \in StoryPaths

\* C17: in a sweep a node that is not in the target state leads to no
\* trigger-log write and no spawn attempt, and a node in the target state
\* whose work item has a pending or spawned record, from either path, leads
\* to no new record.
SweepSkipsAndDedups ==
    [][\A u \in Units :
          (kind[u] = "poll" /\ pc[u] = "loop" /\ issues[u] # <<>> /\ Steps(u)) =>
              LET node == Head(issues[u]) IN
              /\ node.stateId # IN_DEV_STATE_ID =>
                     /\ ~Effect
                     /\ pc'[u] = "loop"
                     /\ triggeredCount'[u] = triggeredCount[u]
              /\ (node.stateId = IN_DEV_STATE_ID
                      /\ ActiveRecords(ledger, node.identifier) # {}) =>
                     /\ ledger' = ledger
                     /\ pc'[u] = "loop"
                     /\ triggeredCount'[u] = triggeredCount[u]]_vars

\* A sweep has gone through all its nodes and admitted none, the trigger
\* log holding one record, admitted by the webhook path.
SweepSkipsAndDedups_Witness ==
    \E u \in Units :
        /\ kind[u] = "poll" /\ pc[u] = "loop"
        /\ issues[u] = <<>> /\ triggeredCount[u] = 0
        /\ Len(ledger) = 1 /\ ledger[1].source = "webhook"
        /\ ledger[1].status \in {"pending", "spawned"}

\* C18: a call of writeTrigger, whatever its outcome, leaves the lines the
\* file held as they were and in their order; a call that returns true adds
\* one line at the end, any other call adds none.
AppendOnly ==
    logCall.fn = "write" =>
        /\ IsPrefix(logCall.before, ledger)
        /\ logCall.written =>
               /\ Len(ledger) = Len(logCall.before) + 1
               /\ ledger[Len(ledger)].kind = "json"
               /\ ledger[Len(ledger)].issueId = logCall.issueId
        /\ ~logCall.written => ledger = logCall.before

\* A record has been appended to a file that holds an empty line and
\* records of several statuses.
AppendOnly_Witness ==
    /\ logCall.fn = "write" /\ logCall.written
    /\ Len(logCall.before) = MaxLines
    /\ \E k \in 1..Len(logCall.before) : logCall.before[k].kind = "blank"
    /\ \E k \in 1..Len(logCall.before) : logCall.before[k].status = "skipped"
    /\ \E k \in 1..Len(logCall.before) : logCall.before[k].status = "spawned"

\* C19: no step of a webhook or poll handler removes a record, changes one,
\* or adds a skipped one: under ingestion the trigger log only grows, by
\* records that are not skipped.
IngestionNeverSkipsOrRemoves ==
    [][(\E u \in Units : Steps(u)) =>
          /\ IsPrefix(ledger, ledger')
          /\ \A k \in 1..Len(ledger') :
                 (k > Len(ledger) /\ ledger'[k].kind = "json") =>
                     ledger'[k].status # "skipped"]_vars

\* A work item abandoned out of band has been admitted again.
IngestionNeverSkipsOrRemoves_Witness ==
    \E u \in Units :
        /\ pc[u] = "dispatch" /\ written[u] = "true"
        /\ SkippedRecords(ledger, issueId[u]) # {}
        /\ PendingRecords(ledger, issueId[u]) # {}

\* C20: a sweep in which the handling of one node has failed still takes
\* the nodes after it through admission: when the handler returns, no node
\* in the target state is left behind the one that failed.
SweepSurvivesItemFailure ==
    \A u \in Units :
        (kind[u] = "poll" /\ pc[u] = "return" /\ issues[u] # <<>>) =>
            \A k \in 2..Len(issues[u]) : issues[u][k].stateId # IN_DEV_STATE_ID

\* C21: a push delivery that passed the signature test and whose body is
\* not JSON has been answered 200; its processing appends nothing to the
\* trigger log or the event log, makes no spawn attempt and ends in the
\* catch of the handler, which returns.
UnparseableAbsorbed ==
    [][\A u \in Units :
          (kind[u] = "webhook" /\ pc[u] = "responded" /\ ~rawBody[u].json /\ Steps(u)) =>
              /\ response[u] = 200 /\ response'[u] = 200
              /\ ~Effect
              /\ written'[u] = "none" /\ issueId'[u] = 0
              /\ pc'[u] = "return"]_vars

\* With a secret configured, a delivery whose body is not JSON and whose
\* signature is the digest of that body has been processed, the trigger
\* log holding a record.
UnparseableAbsorbed_Witness ==
    \E u \in Units :
        /\ cfg.webhookSecret # ""
        /\ kind[u] = "webhook" /\ pc[u] = "return" /\ response[u] = 200
        /\ rawBody[u] = UnparseableBody
        /\ ledger # <<>>

\* C22: with no team configured a poll sweep returns its warning at once:
\* it never waits for a tracker query, never visits a node, never reaches
\* a spawn attempt, and the trigger log holds no record of source poll.
NoTeamSweepIsNoOp ==
    cfg.teamId = "" =>
        /\ \A u \in Units :
               kind[u] = "poll" =>
                   /\ pc[u] = "return" /\ pollReturn[u] = "noTeam"
                   /\ issues[u] = <<>> /\ triggeredCount[u] = 0
                   /\ written[u] = "none" /\ issueId[u] = 0
        /\ \A k \in 1..Len(ledger) : ledger[k].source # "poll"

\* With no team configured a sweep has returned its warning, the push path
\* having admitted a work item before.
NoTeamSweepIsNoOp_Witness ==
    \E u \in Units :
        /\ cfg.teamId = ""
        /\ kind[u] = "poll" /\ pc[u] = "return" /\ pollReturn[u] = "noTeam"
        /\ ledger # <<>>

\* C23: the step in which the tracker query of a sweep fails changes
\* nothing but the position and the message of that sweep: the trigger
\* log, the event log and the spawn calls stay as they were, the sweep has
\* no node to visit and goes to its return with the failure message; the
\* step after it is the return, which leaves the gateway as it was before
\* the sweep, ready for the next one.
QueryFailureLeavesNoTrace ==
    [][\A u \in Units :
          /\ (\E nodes \in PollResults : PollQuerySettle(u, FALSE, nodes)) =>
                 /\ ~Effect
                 /\ issues'[u] = <<>> /\ triggeredCount'[u] = 0
                 /\ written'[u] = "none"
                 /\ pollReturn'[u] = "failed"
                 /\ pc'[u] = "return"
          /\ (kind[u] = "poll" /\ pollReturn[u] = "failed" /\ Steps(u)) =>
                 /\ ~Effect
                 /\ pc'[u] = "idle" /\ kind'[u] = "none"
                 /\ issues'[u] = <<>> /\ triggeredCount'[u] = 0]_vars

\* The query of a sweep has failed while the trigger log holds a pending
\* record and another handler awaits its spawn.
QueryFailureLeavesNoTrace_Witness ==
    \E u, v \in Units :
        /\ kind[u] = "poll" /\ pc[u] = "return" /\ pollReturn[u] = "failed"
        /\ pc[v] = "awaitSpawn"
        /\ PendingRecords(ledger, issueId[v]) # {}

\* C24: a handler that awaits the tracker's answer or the settling of a
\* spawn call is back from the await in the end, and returns.
OutboundCallsTimeOut ==
    \A u \in Units : (pc[u] \in {"query", "awaitSpawn"}) ~> (pc[u] = "idle")

\* The work item an issueId names: none (0) for "unknown".
ItemOfId(id) ==
    IF id \in Issues THEN id
    ELSE IF id \in {UuidOf(i) : i \in Issues} THEN id - NumIssues
    ELSE 0

\* C25: the issueId of every record of the trigger log names the work item
\* whose event caused the record (the one whose title it carries), and an
\* admission is decided, written or deduplicated, under an issueId that
\* names the work item of its event: two work items never meet under one
\* issueId.
IssueIdNamesWorkItem ==
    /\ \A k \in 1..Len(ledger) :
           ledger[k].kind = "json" =>
               ledger[k].issueTitle = TitleOf(ItemOfId(ledger[k].issueId))
    /\ \A u \in Units :
           written[u] \in {"true", "false"} => ItemOfId(issueId[u]) = SubjectOf(u)
    /\ \A u \in Units :
           written[u] = "false" =>
               \A k \in ActiveRecords(ledger, issueId[u]) :
                   ledger[k].issueTitle = TitleOf(SubjectOf(u))

\* C26: the outcome of an admission is fixed by the issueId of the entry
\* and the statuses of the records of that issueId in the file: two calls
\* on one file whose entries have the same issueId have the same outcome,
\* whatever their source, title, time and story path, and a call that does
\* not throw returns true exactly when the file holds no pending or
\* spawned record of its issueId, whatever the records of other work
\* items.
AdmissionLooksAtIdAndStatus ==
    pairCall.ra # "none" =>
        /\ pairCall.a.issueId = pairCall.b.issueId => pairCall.ra = pairCall.rb
        /\ pairCall.ra # "threw" =>
               (pairCall.ra = "true" <=> ActiveRecords(pairCall.file, pairCall.a.issueId) = {})
        /\ pairCall.rb # "threw" =>
               (pairCall.rb = "true" <=> ActiveRecords(pairCall.file, pairCall.b.issueId) = {})

\* Two entries of one work item that differ in source, title, time and
\* story path are both admitted on a file that holds a skipped record of
\* that work item and a pending record of another.
AdmissionLooksAtIdAndStatus_Witness ==
    /\ pairCall.ra = "true" /\ pairCall.rb = "true"
    /\ pairCall.a.issueId = pairCall.b.issueId
    /\ pairCall.a.source # pairCall.b.source
    /\ pairCall.a.issueTitle # pairCall.b.issueTitle
    /\ pairCall.a.triggeredAt # pairCall.b.triggeredAt
    /\ pairCall.a.storyFilePath # pairCall.b.storyFilePath
    /\ SkippedRecords(pairCall.file, pairCall.a.issueId) # {}
    /\ \E id \in Issues :
           id # pairCall.a.issueId /\ PendingRecords(pairCall.file, id) # {}

\* C27: an admission on a trigger log that does not exist, its directory
\* missing or not, returns true and leaves the directory, the file, and in
\* the file the one pending record of the entry; reading a trigger log
\* that does not exist returns no entry and creates nothing.
CreatableOnFirstWrite ==
    /\ (logCall.fn = "write" /\ ~logCall.diskBefore.triggerFile) =>
           /\ ~logCall.threw /\ logCall.written
           /\ disk.logsDir /\ disk.triggerFile
           /\ ledger = <<JsonLine(logCall.issueId, logCall.source, "pending")>>
    /\ (logCall.fn = "read" /\ ~logCall.diskBefore.triggerFile) =>
           /\ ~logCall.threw /\ logCall.entries = <<>>
           /\ disk = logCall.diskBefore
           /\ ledger = <<>>

\* The first admission of a gateway whose workspace has no logs directory.
CreatableOnFirstWrite_Witness ==
    /\ logCall.fn = "write" /\ logCall.written
    /\ logCall.diskBefore = NoDisk
    /\ Len(ledger) = 1

\* C28: extractStoryFilePath returns the first story path written in the
\* description, the same text whether the path stands bare, in quotes or
\* in a markdown link, and null for a description that has none or is
\* null, undefined or empty.
SamePathInEveryForm ==
    pathCall.done => pathCall.result = pathCall.path

\* The records of the trigger log that the events of work item i caused.
RecordsOfItem(file, i) ==
    {k \in 1..Len(file) : file[k].kind = "json" /\ file[k].issueTitle = TitleOf(i)}

\* C29: a push delivery that has passed the signature test and passes the
\* filters, for a work item that has no pending or spawned record, leads
\* to a pending record of source webhook for that work item, whatever the
\* trigger log held.
PushEventNotLost ==
    \A u \in Units, i \in Issues :
        (/\ cfg.webhookSecret # ""
         /\ kind[u] = "webhook" /\ pc[u] = "responded"
         /\ Admissible(rawBody[u])
         /\ ~(cfg.teamId # "" /\ rawBody[u].teamId # cfg.teamId)
         /\ rawBody[u].item = i
         /\ \A k \in RecordsOfItem(ledger, i) : ledger[k].status = "skipped")
        ~> (\E k \in RecordsOfItem(ledger, i) :
                ledger[k].status = "pending" /\ ledger[k].source = "webhook")

\* What a step of the sweep u does to its count and to the trigger log:
\* the count starts at zero and grows with the log, the step leads to the
\* spawn attempt exactly when it has appended a record, the attempt is for
\* the work item of that record, and no step but the attempt makes a spawn
\* call.
SweepAccounts(u) ==
    /\ pc[u] = "query" => triggeredCount[u] = 0
    /\ pc[u] # "return" =>
           triggeredCount'[u] - triggeredCount[u] = Len(ledger') - Len(ledger)
    /\ pc[u] = "loop" =>
           /\ (pc'[u] = "dispatch") <=> (Len(ledger') = Len(ledger) + 1)
           /\ pc'[u] = "dispatch" =>
                  /\ ledger'[Len(ledger')].issueId = issueId'[u]
                  /\ ledger'[Len(ledger')].source = "poll"
    /\ pc[u] # "dispatch" => spawnsSinceRearm' = spawnsSinceRearm

\* C30: in a sweep the spawn attempt is made for a work item exactly when
\* the admission of that sweep has appended its record; the attempt is one
\* spawn call in a runtime that offers the spawn capability and none in a
\* runtime that does not; the count the sweep reports is the number of
\* records it has appended.
SweepSpawnsWhatItWrote ==
    [][\A u \in Units :
          (kind[u] = "poll" /\ Steps(u)) =>
              /\ SweepAccounts(u)
              /\ pc[u] = "dispatch" =>
                     spawnsSinceRearm' =
                         [spawnsSinceRearm EXCEPT ![issueId[u]] =
                             IF apiSessions THEN @ + 1 ELSE @]]_vars

\* C30 as stated: every record a sweep appends has its spawn call, in any
\* runtime.
SweepCallsSpawnForEveryRecord ==
    [][\A u \in Units :
          (kind[u] = "poll" /\ Steps(u)) =>
              /\ SweepAccounts(u)
              /\ pc[u] = "dispatch" =>
                     spawnsSinceRearm' =
                         [spawnsSinceRearm EXCEPT ![issueId[u]] = @ + 1]]_vars

\* A sweep reports one new agent: of its two nodes in the target state one
\* was admitted and spawned, the other had a record from the push path.
SweepSpawnsWhatItWrote_Witness ==
    \E u \in Units :
        /\ kind[u] = "poll" /\ pc[u] = "return" /\ pollReturn[u] = "report"
        /\ triggeredCount[u] = 1
        /\ Len(ledger) = 2
        /\ ledger[1].source = "webhook" /\ ledger[1].issueId \in Issues
        /\ ledger[2].source = "poll"
        /\ spawnsSinceRearm[ledger[2].issueId] = 1

\* C31: the processing of an Issue update that carries a previous state
\* and passes the team filter adds one line to the event log when
\* logEvents is on and none when it is off, whatever its new state and
\* whatever becomes of the admission, a throw of writeTrigger included
\* (the line is written first); no other step writes to the event log.
\* What the step does to the trigger log, and where the handler goes next,
\* is fixed by the payload and the trigger log alone.
EventLoggedBeforeAdmission ==
    [][\A u \in Units :
          (kind[u] = "webhook" /\ Steps(u)) =>
              LET b == rawBody[u]
                  passes == /\ pc[u] = "responded" /\ b.json
                            /\ b.type = "Issue" /\ b.action = "update" /\ b.prev
                            /\ ~(cfg.teamId # "" /\ b.teamId # cfg.teamId)
              IN  /\ passes => eventLog' = eventLog + (IF cfg.logEvents THEN 1 ELSE 0)
                  /\ ~passes => eventLog' = eventLog
                  /\ ~cfg.logEvents => eventLog' = 0
                  /\ (passes /\ b.stateId # IN_DEV_STATE_ID) =>
                         ledger' = ledger /\ pc'[u] = "return"
                  /\ (passes /\ b.stateId = IN_DEV_STATE_ID
                          /\ ~ReadTriggerLog(ledger).threw) =>
                         /\ pc'[u] = "dispatch"
                         /\ IF ActiveRecords(ledger, issueId'[u]) = {}
                            THEN Len(ledger') = Len(ledger) + 1 /\ written'[u] = "true"
                            ELSE ledger' = ledger /\ written'[u] = "false"]_vars

\* The event log holds the line of an update whose admission then threw
\* on a damaged trigger log.
EventLoggedBeforeAdmission_Witness ==
    \E u \in Units :
        /\ kind[u] = "webhook" /\ written[u] = "threw"
        /\ eventLog = 1
        /\ ledger = <<CorruptLine>>


(***************************************************************************)
(* GitHub -> Linear sync                                                   *)
(***************************************************************************)
\* The keys of the entries written in a dedup log.
LoggedKeys(log) ==
    {<<log[k].repo, log[k].prNumber>> : k \in {j \in 1..Len(log) : log[j].kind = "json"}}

\* The keys with a not_found entry that a reader of the log reaches: every
\* line up to the entry parses.
ReadableNotFound(log) ==
    {<<log[k].repo, log[k].prNumber>> :
        k \in {j \in 1..Len(log) :
                  /\ log[j].kind = "json" /\ log[j].action = "not_found"
                  /\ \A i \in 1..j : log[i].kind = "json"}}

\* A step of the run itself on the pull request at the head of the list.
SettlesFrom(at) == ghSync.pc = at /\ ghSync'.pc # at

\* C32: a pull request whose repo:number key is in the dedup log when a run
\* starts is not looked up, not sent a mark-Done mutation and not commented
\* on in that run, and over all runs no pull request is marked Done more
\* than once.
LoggedPullRequestUntouched ==
    /\ \A k \in LoggedKeys(ghSync.logAtStart) :
           k \notin (ghSync.lookedUp \cup ghSync.markSent \cup ghSync.commented)
    /\ \A k \in DedupKeys : ghSync.doneCount[k] <= 1

\* C33: outside a dry run, a comment is sent and a marked_done entry is
\* appended only in the step that follows a successful mark-Done mutation
\* for the same pull request; when markLinearDone resolves to false the
\* dedup log and the in-memory set stay without the pull request's key, the
\* loop goes on with the remaining pull requests of the run, and a later
\* run that is handed the pull request looks it up again.
MarkFailureLeavesPullRequestOpen ==
    [][/\ (/\ ~ghSync.DRY_RUN
           /\ \/ ~(ghSync'.commented \subseteq ghSync.commented)
              \/ /\ ghSync'.dedupLog # ghSync.dedupLog
                 /\ ghSync'.dedupLog[Len(ghSync'.dedupLog)].action = "marked_done")
          => /\ ghSync.pc = "comment"
             /\ ghSync.marked
             /\ KeyOf(Head(ghSync.prs)) \in ghSync.markSent
             /\ ghSync.doneCount[KeyOf(Head(ghSync.prs))] > 0
       /\ (SettlesFrom("mark") /\ ~ghSync.DRY_RUN /\ ~ghSync'.marked)
          => /\ ghSync'.dedupLog = ghSync.dedupLog
             /\ KeyOf(Head(ghSync.prs)) \notin ghSync'.dedup
             /\ KeyOf(Head(ghSync.prs)) \notin LoadDedup(ghSync'.dedupLog)
             /\ ghSync'.commented = ghSync.commented
             /\ ghSync'.pc = "pr"
             /\ ghSync'.prs = Tail(ghSync.prs)
       /\ (/\ ghSync.pc = "pr" /\ ghSync.prs # <<>>
           /\ ghSync'.stateName = ghSync.stateName
           /\ KeyOf(Head(ghSync.prs)) \in ghSync.failed)
          => /\ ghSync'.pc = "lookup"
             /\ KeyOf(Head(ghSync.prs)) \in ghSync'.lookedUp]_vars

\* The second run looks up the pull request whose mark-Done failed in the
\* first, after the first went on to the pull request that followed it.
MarkFailureLeavesPullRequestOpen_Witness ==
    /\ ghSync.runs = 2 /\ ~ghSync.DRY_RUN
    /\ ghSync.pc = "lookup" /\ Head(ghSync.prs) = PrB
    /\ KeyOf(PrB) \in ghSync.failed
    /\ KeyOf(PrC) \in LoggedKeys(ghSync.dedupLog)
    /\ KeyOf(PrB) \notin LoggedKeys(ghSync.dedupLog)

SyncedStoryNeverResynced ==
    /\ \A s \in SyncedPaths(bmadSync.fileAtStart.entries) : s \notin bmadSync.attempted
    /\ bmadSync.pc = "loop" => bmadSync.created \subseteq SyncedPaths(bmadSync.file.entries)
    /\ \A s \in 1..NumStories : bmadSync.syncCount[s] <= 1

\* C36: when syncStory fails for a story, the manifest in memory and on
\* disk stay as they were and the loop goes on with the stories that
\* remain; the next run that syncs takes up every story whose sync failed.
SyncFailureIsSkipped ==
    [][/\ (/\ bmadSync.pc = "loop" /\ bmadSync.unsynced # <<>>
           /\ bmadSync'.ended # "killed"
           /\ bmadSync'.syncCount = bmadSync.syncCount)
          => /\ bmadSync'.manifest = bmadSync.manifest
             /\ bmadSync'.file = bmadSync.file
             /\ bmadSync'.pc = "loop"
             /\ bmadSync'.unsynced = Tail(bmadSync.unsynced)
       /\ (bmadSync.pc = "idle" /\ bmadSync'.pc = "loop")
          => \A s \in bmadSync.attempted \ bmadSync.created :
                 \E k \in 1..Len(bmadSync'.unsynced) : bmadSync'.unsynced[k] = s]_vars


(***************************************************************************)
(* Canon enforcer                                                          *)
(***************************************************************************)
\* C37: os/README.md is read at most once; once the cache is set, by a read
\* that returned or by one that threw, no event changes it or reads again,
\* whatever the files hold by then, and an event with a workspace directory
\* returns the cached text, or nothing when that text is empty.
ReadmeReadAtMostOnce ==
    [][/\ canon'.reads <= 1
       /\ ~canon.osReadmeCache.isNull
          => /\ canon'.osReadmeCache = canon.osReadmeCache
             /\ canon'.reads = canon.reads
             /\ canon'.readFailed = canon.readFailed
             /\ (canon'.events # canon.events /\ canon'.dir # 0)
                => canon'.returned =
                       IF canon.osReadmeCache.text # ""
                       THEN [prependContext |-> TRUE, text |-> canon.osReadmeCache.text]
                       ELSE [prependContext |-> FALSE, text |-> ""]
       /\ (canon.osReadmeCache.isNull /\ canon'.events # canon.events
             /\ canon.injectOsReadme /\ canon'.dir # 0)
          => /\ canon'.reads = 1
             /\ ~canon'.osReadmeCache.isNull
             /\ ~canon.files[canon'.dir].exists
                => canon'.readFailed /\ canon'.osReadmeCache.text = ""
                     /\ ~canon'.returned.prependContext
       /\ canon.readFailed => ~canon'.returned.prependContext]_vars

\* The first read threw; the file has appeared since, and a later event for
\* the same workspace returned nothing without reading.
ReadmeReadAtMostOnce_Witness ==
    /\ canon.readFailed /\ canon.reads = 1 /\ canon.events >= 2
    /\ canon.dir # 0
    /\ canon.files[canon.dir].exists /\ canon.files[canon.dir].text # ""
    /\ ~canon.returned.prependContext
    /\ ~canon.osReadmeCache.isNull /\ canon.osReadmeCache.text = ""

====
